---- MODULE Spec2Model ----
(***************************************************************************)
(* A model of the map view of the web GIS (src/src/map-view-new.tsx):      *)
(* geometry parsing, the feature layer group, the legend and its hidden    *)
(* values, the filter, the measurement tools and the colour assignment.    *)
(*                                                                         *)
(* Geometry strings are sequences of lexical items.  An item is a tag word *)
(* ("POLYGON", "MULTIPOLYGON", "POINT" and lower-case spellings), one of   *)
(* the characters "(", ")", "," and " ", or a lexeme: a maximal run of     *)
(* other characters ("0", "1", "2", "x", "1x").  Two lexemes are never     *)
(* adjacent in a string, so splitting on commas and white space works on   *)
(* items as it works on characters.  Category values, filter texts and     *)
(* coloured strings are sequences of UTF-16 code units.                    *)
(*                                                                         *)
(* Specifications: SpecParse (one geometry value through the parsers),     *)
(* SpecColor (getColorForValue), SpecFormat (formatDistance, formatArea),  *)
(* SpecArea (calculatePolygonArea), SpecMeasure (a measurement session),   *)
(* Spec (the features, the legend and the filter), SpecContent             *)
(* (createPopupContent), SpecEdit (editing a record in the feature popup), *)
(* SpecLoad (loading Leaflet and wellknown, creating the map, in the map   *)
(* view and in the full-screen page, src/unnamed/part_007), FairSpecLoad   *)
(* (SpecLoad in which a loading script answers and the timer fires),       *)
(* SpecPairs (the manual parser on tokens of one, two and three fields)    *)
(* and SpecZoom (clicks on the rows of the attribute table).               *)
(***************************************************************************)
EXTENDS Integers, Sequences, FiniteSets, TLC

VARIABLES
    \* one geometry value going through the parser (lines 261-417, 484-574)
    geomData,        \* record[geometryCol.key]
    wktParts,        \* the pieces geomData was written from (tag, tokens, ...)
    wellknown,       \* TRUE when window.wellknown is loaded
    geometry,        \* what parseMultiPolygonManually returned for geomData
    added,           \* what the rebuild put on the map for geomData
    ppc,             \* position of the parser run: "start", "parsed", "built"
    \* calls of getColorForValue (lines 916-930)
    value,           \* the string coloured, as UTF-16 code units
    field,           \* the field argument of the last call
    color,           \* the colour the last call returned
    firstColor,      \* the colour the first call returned
    \* the map view's features and legend (lines 33-56)
    data,            \* the records (the data prop)
    processed,       \* what the rebuild loop makes of each geometry text of the records
                     \* (in SpecLoad: that, for window.wellknown absent and present)
    layers,          \* the layers of layerGroupRef, in the order they were added
    hiddenValues,    \* the set of category values switched off
    legendItems,     \* the stored legend items
    colorField,      \* '' | 'default' | a column key
    labelField,      \* '' | 'none' | a column key
    filterField,     \* '' | a column key
    filterValue,     \* the text of the filter input
    \* the measurement tools (lines 994-1153)
    measurementMode,    \* 'none' | 'line' | 'area'
    measurementUnits,   \* 'metric' | 'imperial'
    measurementLayers,  \* the layers clearMeasurements and startMeasurement remove
    mapLayers,          \* the measurement layers on the map
    handlers,           \* the click / dblclick handler pairs registered on the map
    popup,              \* the popup open on the map
    cursor,             \* the map container's cursor style
    clicked,         \* a list of points handed to calculatePolygonArea
    amount,          \* a number handed to formatDistance / formatArea
    text,            \* what the formatter returned for it
    \* the feature popup (lines 738-871)
    columns,         \* the column descriptors (the columns prop)
    content,         \* what createPopupContent returned
    domPopup,        \* the popup in the document: .leaflet-popup-content
    selectedFeature, \* <<>> for null | <<the record last clicked>>
    editingFeature,  \* <<>> for null | <<the record id handed to startEditFeature>>
    saving,          \* the calls of onRecordUpdate that have not settled
    updateCalls,     \* how many times onRecordUpdate was called
    alerts,          \* how many times alert() was called
    \* loading the libraries and creating the map (lines 58-253)
    page,            \* the component mounted: "MapView" | "MapFullscreenPage"
    isLoading,       \* the isLoading prop (recordsLoading of the full screen page)
    windowL,         \* TRUE when window.L is set
    leafletScripts,  \* the Leaflet script elements injected: "pending" | "loaded" | "failed"
    wellknownScripts, \* the wellknown script elements injected, likewise
    runs,            \* the calls of initializeMap
    mapInstance,     \* 0 for null | the number of the run that set mapInstanceRef.current
    isMapInitialized,
    rendered,        \* <<>> | <<the record set the rebuild body last ran on>>
    \* a click on a row of the attribute table (lines 895-912)
    fitted           \* the records of the layers the last zoomToRecord set the view to

parseVars == <<geomData, wktParts, wellknown, geometry, added, ppc>>

colorVars == <<value, field, color, firstColor>>

formatVars == <<clicked, amount, text>>

measureVars ==
    <<measurementMode, measurementUnits, measurementLayers, mapLayers, handlers, popup, cursor>>

sessionVars == <<measurementMode, measurementLayers, mapLayers, handlers, popup, cursor>>

uiVars ==
    <<data, processed, layers, hiddenValues, legendItems, colorField, labelField, filterField, filterValue>>

popupVars ==
    <<columns, content, domPopup, selectedFeature, editingFeature, saving, updateCalls, alerts>>

loadVars ==
    <<page, isLoading, windowL, leafletScripts, wellknownScripts, runs, mapInstance,
      isMapInitialized, rendered>>

zoomVars == <<fitted>>

vars == <<parseVars, colorVars, formatVars, measureVars, uiVars, popupVars, loadVars, zoomVars>>

(***************************************************************************)
(* Bounds of the model.                                                    *)
(***************************************************************************)
MaxTokens == 4      \* coordinate tokens in a generated WKT string
MaxValueLen == 5    \* code units in a coloured string
Spread == 2         \* formatted numbers lie within Spread of a threshold
MaxPoints == 3      \* clicks one measurement handler receives
MaxHandlers == 2    \* click handlers registered on the map at once
MaxLayers == 2      \* measurement layers in existence at once
MaxColumns == 9     \* column descriptors of a table
MaxSaves == 2       \* calls of onRecordUpdate
MaxRuns == 2        \* calls of initializeMap

(***************************************************************************)
(* Generic helpers on sequences of items.                                  *)
(***************************************************************************)
Min(S) == CHOOSE x \in S : \A y \in S : x <= y

\* String.prototype.toUpperCase, item by item
Upper(item) ==
    CASE item = "polygon" -> "POLYGON"
      [] item = "multipolygon" -> "MULTIPOLYGON"
      [] item = "point" -> "POINT"
      [] OTHER -> item

\* String.prototype.trim
Trim(s) ==
    LET keep == {i \in 1..Len(s) : s[i] # " "}
    IN IF keep = {} THEN <<>>
       ELSE SubSeq(s, Min(keep), CHOOSE i \in keep : \A j \in keep : j <= i)

\* String.prototype.split(sep) for a one-character separator
RECURSIVE Split(_, _)
Split(s, sep) ==
    LET at == {i \in 1..Len(s) : s[i] = sep}
    IN IF at = {} THEN <<s>>
       ELSE <<SubSeq(s, 1, Min(at) - 1)>> \o Split(SubSeq(s, Min(at) + 1, Len(s)), sep)

\* String.prototype.split(/\s+/): the maximal runs of items other than " ";
\* the empty string gives one empty field, as in JavaScript.
RECURSIVE SplitWs(_)
SplitWs(s) ==
    LET sp == {i \in 1..Len(s) : s[i] = " "}
        ns == {i \in 1..Len(s) : s[i] # " "}
    IN IF sp = {} THEN <<s>>
       ELSE LET i == Min(sp)
                after == {j \in ns : j > i}
            IN IF after = {} THEN <<SubSeq(s, 1, i - 1), <<>>>>
               ELSE <<SubSeq(s, 1, i - 1)>> \o SplitWs(SubSeq(s, Min(after), Len(s)))

\* first index >= i that holds no " " (Len(s) + 1 when there is none): \s*
SkipWs(s, i) ==
    CHOOSE j \in i..(Len(s) + 1) :
        /\ \A k \in i..(j - 1) : s[k] = " "
        /\ (j = Len(s) + 1 \/ s[j] # " ")

\* (\s*c){n} from index i: the index after the match, 0 when it fails
RECURSIVE MatchRepeat(_, _, _, _)
MatchRepeat(s, i, c, n) ==
    IF n = 0 THEN i
    ELSE LET j == SkipWs(s, i)
         IN IF j <= Len(s) /\ s[j] = c THEN MatchRepeat(s, j + 1, c, n - 1) ELSE 0

\* String.prototype.includes(')))')
IncludesTripleClose(s) ==
    \E i \in 1..(Len(s) - 2) : s[i] = ")" /\ s[i + 1] = ")" /\ s[i + 2] = ")"

\* wkt.toUpperCase().includes(tag)
IncludesTag(s, tag) ==
    \E i \in 1..Len(s) :
        \/ Upper(s[i]) = tag
        \/ tag = "POLYGON" /\ Upper(s[i]) = "MULTIPOLYGON"

(***************************************************************************)
(* Numbers.  parseFloat reads the longest numeric prefix of a field; a     *)
(* field is a run of items, and only its first item can be that prefix.    *)
(***************************************************************************)
NaN == [nan |-> TRUE, v |-> 0]
Num(n) == [nan |-> FALSE, v |-> n]

ParseFloatLexeme(x) ==
    CASE x = "0" -> Num(0)
      [] x = "1" -> Num(1)
      [] x = "2" -> Num(2)
      [] x = "1x" -> Num(1)
      [] OTHER -> NaN

\* parseFloat(coords[k]); coords[k] is undefined past the end of the array
ParseFloatField(fields, k) ==
    IF k > Len(fields) \/ fields[k] = <<>> THEN NaN ELSE ParseFloatLexeme(fields[k][1])

(***************************************************************************)
(* parseMultiPolygonManually (lines 484-574).                              *)
(***************************************************************************)
NullGeometry == [type |-> "null", ring |-> <<>>]

\* The two regular expressions of lines 505 and 514, which differ in the tag
\* and in the number n of parentheses:
\*     TAG (\s*\(){n} \s* ([^)]+) \s*\) (\s*\)){n-1}
\* tried at the item `at`.  [^)]+ is greedy, so it runs to the next ")" and
\* takes one white-space item back from the \s* before it when it would
\* otherwise be empty.  The result is <<matched, capture>>.
MatchAt(s, at, n) ==
    LET p == MatchRepeat(s, at + 1, "(", n)
    IN IF p = 0 THEN <<FALSE, <<>>>>
       ELSE LET closes == {i \in p..Len(s) : s[i] = ")"}
            IN IF closes = {} THEN <<FALSE, <<>>>>
               ELSE LET e == Min(closes)
                        j == SkipWs(s, p)
                        c == IF j < e THEN j ELSE e - 1
                    IN IF c < p THEN <<FALSE, <<>>>>
                       ELSE IF MatchRepeat(s, e + 1, ")", n - 1) = 0 THEN <<FALSE, <<>>>>
                       ELSE <<TRUE, SubSeq(s, c, e - 1)>>

\* wkt.match(re): the first item at which the expression matches (the
\* expression is not anchored, and /POLYGON/i also matches the end of
\* MULTIPOLYGON); match[1], or the empty string when there is no match.
MatchCoordString(s, tag, n) ==
    LET starts == {i \in 1..Len(s) :
                     /\ Upper(s[i]) = tag \/ (tag = "POLYGON" /\ Upper(s[i]) = "MULTIPOLYGON")
                     /\ MatchAt(s, i, n)[1]}
    IN IF starts = {} THEN <<>> ELSE MatchAt(s, Min(starts), n)[2]

\* lines 531-542: one comma-separated token to [lng, lat], or dropped
CoordPair(pair) ==
    LET coords == SplitWs(Trim(pair))
        lng == ParseFloatField(coords, 1)
        lat == ParseFloatField(coords, 2)
    IN IF lng.nan \/ lat.nan THEN <<>> ELSE <<<<lng.v, lat.v>>>>

RECURSIVE CoordPairs(_)
CoordPairs(tokens) ==
    IF tokens = <<>> THEN <<>> ELSE CoordPair(Head(tokens)) \o CoordPairs(Tail(tokens))

\* CloseRing with the append left out
CloseRing_NeverAppends(coordPairs) == coordPairs

\* lines 549-554: close the ring if not already closed
CloseRing(coordPairs) ==
    LET firstPoint == coordPairs[1]
        lastPoint == coordPairs[Len(coordPairs)]
    IN IF firstPoint[1] # lastPoint[1] \/ firstPoint[2] # lastPoint[2]
       THEN Append(coordPairs, <<firstPoint[1], firstPoint[2]>>)
       ELSE coordPairs

\* lines 497-569: extract the coordinate string, parse the pairs, close the ring
ExtractAndParse(wkt) ==
    LET isMultiPolygon == IncludesTag(wkt, "MULTIPOLYGON")
        coordString ==
            IF isMultiPolygon THEN MatchCoordString(wkt, "MULTIPOLYGON", 3)
            ELSE IF IncludesTag(wkt, "POLYGON") THEN MatchCoordString(wkt, "POLYGON", 2)
            ELSE <<>>
    IN IF coordString = <<>> THEN NullGeometry
       ELSE LET coordPairs == CoordPairs(Split(coordString, ","))
            IN IF Len(coordPairs) < 3 THEN NullGeometry
               ELSE [type |-> IF isMultiPolygon THEN "MultiPolygon" ELSE "Polygon",
                     ring |-> CloseRing(coordPairs)]

parseMultiPolygonManually(wkt) ==
    IF IncludesTag(wkt, "MULTIPOLYGON") /\ ~IncludesTripleClose(wkt) THEN NullGeometry
    ELSE ExtractAndParse(wkt)

(***************************************************************************)
(* window.wellknown, the wellknown@0.5.0 parser loaded by lines 176-192    *)
(* and called at line 299 with the untrimmed string.  The tag is anchored  *)
(* at the start of the string; the coordinates are read by a loop over     *)
(* "(", ")", "," and tuples of two or more numbers, skipping white space   *)
(* after each, which ends with the parenthesis that returns to depth 0.    *)
(* The scan keeps the depth, whether the list being filled is empty, the   *)
(* tuples read and the depths they were read at.                           *)
(***************************************************************************)
IsNumberLexeme(x) == x \in {"0", "1", "2"}

\* the tuple ^number(\snumber){1,} at index i: the index after it, 0 if none
RECURSIVE TupleEnd(_, _)
TupleEnd(s, i) ==
    IF i + 2 <= Len(s) /\ s[i + 1] = " " /\ IsNumberLexeme(s[i + 2])
    THEN TupleEnd(s, i + 2)
    ELSE i + 1

RECURSIVE MultiCoords(_, _, _, _, _, _)
MultiCoords(s, i, depth, empty, points, depths) ==
    LET failed == [ok |-> FALSE, points |-> <<>>, depths |-> {}]
        done == IF depth # 0 THEN failed
                ELSE [ok |-> TRUE, points |-> points, depths |-> depths]
    IN IF i > Len(s) THEN done
       ELSE IF s[i] = "(" THEN MultiCoords(s, SkipWs(s, i + 1), depth + 1, TRUE, points, depths)
       ELSE IF s[i] = ")" THEN
            IF empty THEN failed
            ELSE IF depth - 1 = 0 THEN [ok |-> TRUE, points |-> points, depths |-> depths]
            ELSE MultiCoords(s, SkipWs(s, i + 1), depth - 1, FALSE, points, depths)
       ELSE IF s[i] = "," THEN MultiCoords(s, SkipWs(s, i + 1), depth, TRUE, points, depths)
       ELSE IF IsNumberLexeme(s[i]) /\ TupleEnd(s, i) > i + 1 THEN
            MultiCoords(s, SkipWs(s, TupleEnd(s, i)), depth, FALSE,
                        Append(points, <<ParseFloatLexeme(s[i]).v, ParseFloatLexeme(s[i + 2]).v>>),
                        depths \cup {depth})
       ELSE done

\* the GeoJSON geometry, or null; nested is TRUE when every tuple sits at the
\* depth the geometry type needs (2 for Polygon, 3 for MultiPolygon)
WellknownParse(s) ==
    IF s = <<>> \/ Upper(s[1]) \notin {"POLYGON", "MULTIPOLYGON"}
    THEN [type |-> "null", ring |-> <<>>, nested |-> FALSE]
    ELSE LET c == MultiCoords(s, SkipWs(s, 2), 0, TRUE, <<>>, {})
             multi == Upper(s[1]) = "MULTIPOLYGON"
         IN IF ~c.ok THEN [type |-> "null", ring |-> <<>>, nested |-> FALSE]
            ELSE [type |-> IF multi THEN "MultiPolygon" ELSE "Polygon",
                  ring |-> c.points,
                  nested |-> c.depths \subseteq {IF multi THEN 3 ELSE 2}]

(***************************************************************************)
(* parseCoordinates (lines 695-724).                                       *)
(***************************************************************************)
\* Number(field): the whole field must be a number; the empty string is 0
NumberField(fields, k) ==
    IF k > Len(fields) THEN NaN
    ELSE IF fields[k] = <<>> THEN Num(0)
    ELSE IF Len(fields[k]) = 1 /\ IsNumberLexeme(fields[k][1]) THEN ParseFloatLexeme(fields[k][1])
    ELSE NaN

Abs(n) == IF n < 0 THEN -n ELSE n

NullCoords == [found |-> FALSE, lat |-> NaN, lng |-> NaN]

\* /POINT\s*\(\s*([^)]+)\s*\)/i, found at the first item it matches at
MatchPoint(s) ==
    LET starts == {i \in 1..Len(s) : Upper(s[i]) = "POINT" /\ MatchAt(s, i, 1)[1]}
    IN IF starts = {} THEN <<FALSE, <<>>>> ELSE MatchAt(s, Min(starts), 1)

parseCoordinates(coordString) ==
    LET str == Trim(coordString)
    IN IF coordString = <<>> THEN NullCoords
       ELSE IF \E i \in 1..Len(str) : str[i] = "POINT" THEN
            LET m == MatchPoint(str)
                coords == SplitWs(m[2])
            IN IF m[1] /\ Len(coords) >= 2
               THEN [found |-> TRUE, lat |-> NumberField(coords, 2), lng |-> NumberField(coords, 1)]
               ELSE NullCoords
       ELSE IF \E i \in 1..Len(str) : str[i] = "," THEN
            LET tokens == Split(str, ",")
                a == ParseFloatField(SplitWs(Trim(tokens[1])), 1)
                b == ParseFloatField(SplitWs(Trim(tokens[2])), 1)
            IN IF ~a.nan /\ ~b.nan
               THEN IF Abs(a.v) <= 90
                    THEN [found |-> TRUE, lat |-> a, lng |-> b]
                    ELSE [found |-> TRUE, lat |-> b, lng |-> a]
               ELSE NullCoords
       ELSE NullCoords

(***************************************************************************)
(* getColorForValue (lines 916-930).  The hash is a JavaScript number: an  *)
(* integer that leaves the 32-bit range, since only hash << 5 is taken     *)
(* modulo 2^32.  It is kept as q * 2^27 + r with 0 <= r < 2^27, so that no *)
(* intermediate value leaves the range of the model checker's integers.    *)
(***************************************************************************)
Wide(q, r) == [q |-> q, r |-> r]

\* hash << 5: ToInt32(hash * 32), which depends on r alone
ShiftLeft5(hash) ==
    Wide((hash.r \div 2^22) - (IF hash.r >= 2^26 THEN 32 ELSE 0), (hash.r % 2^22) * 32)

\* value.charCodeAt(i) + ((hash << 5) - hash)
HashStep(hash, charCode) ==
    LET s == ShiftLeft5(hash)
        low == charCode + s.r - hash.r
    IN Wide(s.q - hash.q + (low \div 2^27), low % 2^27)

RECURSIVE HashLoop(_, _, _)
HashLoop(str, i, hash) ==
    IF i > Len(str) THEN hash ELSE HashLoop(str, i + 1, HashStep(hash, str[i]))

IsNegative(hash) == hash.q < 0

\* Math.abs(hash) % n, for n with 2^27 % n = 8
AbsMod(hash, n) ==
    IF IsNegative(hash)
    THEN ((((-hash.q) % n) * (2^27 % n)) + n - (hash.r % n)) % n
    ELSE (((hash.q % n) * (2^27 % n)) + (hash.r % n)) % n

colors ==
    << "#FF6B6B", "#4ECDC4", "#45B7D1", "#96CEB4", "#FECA57",
       "#FF9FF3", "#54A0FF", "#5F27CD", "#00D2D3", "#FF9F43",
       "#10AC84", "#EE5A24", "#0abde3", "#006ba6", "#f39801" >>

\* array[index]: undefined outside the array
At(array, index) ==
    IF index \in 0..(Len(array) - 1) THEN array[index + 1] ELSE "undefined"

\* getColorForValue with hash % colors.length, Math.abs left out: the
\* remainder of a negative hash is negative (or -0, which indexes as 0)
getColorForValue_NoAbs(str, fieldArg) ==
    LET hash == HashLoop(str, 1, Wide(0, 0))
        m == AbsMod(hash, Len(colors))
    IN At(colors, IF IsNegative(hash) THEN -m ELSE m)

getColorForValue(str, fieldArg) ==
    At(colors, AbsMod(HashLoop(str, 1, Wide(0, 0)), Len(colors)))

(***************************************************************************)
(* Measured numbers.  Clicked points lie on a grid of 100 m: a coordinate  *)
(* c stands for c * 100 / 111320 degrees.  A measured number is kept       *)
(* exactly as w + n / FracDen with w and n integers and |n| < FracDen,     *)
(* where FracDen = (111320 / 20)^2, the denominator of the square of one   *)
(* grid step (100 / 111320 = 5 / 5566).                                    *)
(***************************************************************************)
MetersPerDegree == 111320
FracDen == (MetersPerDegree \div 20) * (MetersPerDegree \div 20)

Real(w, n) == [w |-> w, n |-> n]
Whole(w) == [w |-> w, n |-> 0]

\* Math.floor(x), and x < t for an integer t
Floor(x) == IF x.n < 0 THEN x.w - 1 ELSE x.w
Below(x, t) == Floor(x) < t

\* Math.abs(x)
AbsReal(x) == IF x.w > 0 \/ (x.w = 0 /\ x.n >= 0) THEN x ELSE Real(-x.w, -x.n)

\* x * p for an integer p
Times(x, p) == Real(x.w * p + ((x.n * p) \div FracDen), (x.n * p) % FracDen)

\* x.toFixed(2), in hundredths
ToFixed2(x) == x.w * 100 + ((200 * x.n + FracDen) \div (2 * FracDen))

\* (x * p / (100 * d)).toFixed(2), in hundredths, for integers p and d: the
\* multiples of d in x are converted first, which keeps the products small
ScaledToFixed2(x, p, d) ==
    LET a == Floor(x) \div d
        rest == Real(x.w - a * d, x.n)
    IN a * p + ((Floor(Times(rest, 2 * p)) + d) \div (2 * d))

(***************************************************************************)
(* formatDistance and formatArea (lines 1108-1144).  The text is the       *)
(* figure, in hundredths, and the unit label.                              *)
(***************************************************************************)
Shown(figure, unit) == [figure |-> figure, unit |-> unit]
NoText == [figure |-> 0, unit |-> "none"]

\* formatDistance with meters <= 1000 for the metric test
formatDistance_AtMost(meters, units) ==
    IF units = "imperial"
    THEN IF Floor(meters) < 1610 /\ Below(Times(meters, 328084), 5280 * 100000)
         THEN Shown(ScaledToFixed2(meters, 328084 \div 4, 1000 \div 4), "ft")
         ELSE Shown(ScaledToFixed2(meters, 328084 \div 4, (5280 * 1000) \div 4), "miles")
    ELSE IF ~Below(meters, 1000) /\ meters # Whole(1000)
         THEN Shown(ScaledToFixed2(meters, 1, 1000 \div 100), "km")
         ELSE Shown(ToFixed2(meters), "m")

\* feet = meters * 3.28084; below 5280 feet, else miles = feet / 5280;
\* below 1000 meters, else km = meters / 1000
formatDistance(meters, units) ==
    IF units = "imperial"
    THEN IF Floor(meters) < 1610 /\ Below(Times(meters, 328084), 5280 * 100000)
         THEN Shown(ScaledToFixed2(meters, 328084 \div 4, 1000 \div 4), "ft")
         ELSE Shown(ScaledToFixed2(meters, 328084 \div 4, (5280 * 1000) \div 4), "miles")
    ELSE IF Below(meters, 1000)
         THEN Shown(ToFixed2(meters), "m")
         ELSE Shown(ScaledToFixed2(meters, 1, 1000 \div 100), "km")

\* formatArea with sqMeters <= 10000 for the metric test
formatArea_AtMost(sqMeters, units) ==
    IF units = "imperial"
    THEN IF Floor(sqMeters) < 4047 /\ Below(Times(sqMeters, 10764), 43560 * 1000)
         THEN Shown(ScaledToFixed2(sqMeters, 10764 \div 2, 10 \div 2), "sq ft")
         ELSE Shown(ScaledToFixed2(sqMeters, 10764 \div 36, (43560 * 10) \div 36), "acres")
    ELSE IF ~Below(sqMeters, 10000) /\ sqMeters # Whole(10000)
         THEN Shown(ScaledToFixed2(sqMeters, 1, 10000 \div 100), "hectares")
         ELSE Shown(ToFixed2(sqMeters), "sq m")

\* sqFeet = sqMeters * 10.764; below 43560 square feet, else acres =
\* sqFeet / 43560; below 10000 square meters, else hectares = sqMeters / 10000
formatArea(sqMeters, units) ==
    IF units = "imperial"
    THEN IF Floor(sqMeters) < 4047 /\ Below(Times(sqMeters, 10764), 43560 * 1000)
         THEN Shown(ScaledToFixed2(sqMeters, 10764 \div 2, 10 \div 2), "sq ft")
         ELSE Shown(ScaledToFixed2(sqMeters, 10764 \div 36, (43560 * 10) \div 36), "acres")
    ELSE IF Below(sqMeters, 10000)
         THEN Shown(ToFixed2(sqMeters), "sq m")
         ELSE Shown(ScaledToFixed2(sqMeters, 1, 10000 \div 100), "hectares")

(***************************************************************************)
(* The measurement tools (lines 994-1153).  A clicked point is <<lat, lng>> *)
(* in grid steps.  A handler is the pair onMapClick / onMapDblClick of one *)
(* startLineMeasurement or startAreaMeasurement call with the variables it *)
(* closes over: its points, its layer (0 before the first click) and the   *)
(* measurementUnits of the render that started it.                         *)
(***************************************************************************)
Max(S) == CHOOSE x \in S : \A y \in S : x >= y

\* square of one grid step in metres on Leaflet's sphere (radius 6371000)
StepSquared == 9978

\* latlng.distanceTo(other), to the metre
distanceTo(a, b) ==
    LET k == (a[1] - b[1]) * (a[1] - b[1]) + (a[2] - b[2]) * (a[2] - b[2])
        sq == 4 * StepSquared * k
    IN IF k = 0 THEN 0
       ELSE CHOOSE d \in 1..(100 * k) : (2 * d - 1) * (2 * d - 1) <= sq /\ sq < (2 * d + 1) * (2 * d + 1)

RECURSIVE calculateLineDistance(_)
calculateLineDistance(points) ==
    IF Len(points) < 2 THEN 0
    ELSE distanceTo(points[1], points[2]) + calculateLineDistance(Tail(points))

getNorth(points) == Max({points[i][1] : i \in 1..Len(points)})
getSouth(points) == Min({points[i][1] : i \in 1..Len(points)})
getEast(points) == Max({points[i][2] : i \in 1..Len(points)})
getWest(points) == Min({points[i][2] : i \in 1..Len(points)})

\* north - south * east - west * 111320 * 111320 in degrees, as the
\* expression groups: north - (south * east) - (west * 111320 * 111320)
calculatePolygonArea(points) ==
    IF Len(points) < 3 THEN Whole(0)
    ELSE AbsReal(Real(-(getWest(points) * 100 * MetersPerDegree),
                      getNorth(points) * (MetersPerDegree \div 4)
                          - 25 * getSouth(points) * getEast(points)))

Handler(mode, units) == [mode |-> mode, units |-> units, points |-> <<>>, layer |-> 0]
NoPopup == [label |-> "none", text |-> NoText]

LayersInUse(hs, onMap, inState) ==
    onMap \cup {inState[i] : i \in 1..Len(inState)} \cup ({hs[i].layer : i \in 1..Len(hs)} \ {0})

\* onMapClick of handler hs[i] and of those registered after it
RECURSIVE FireClick(_, _, _)
FireClick(st, i, latlng) ==
    IF i > Len(st.handlers) THEN st
    ELSE LET h == st.handlers[i]
             points == Append(h.points, latlng)
             layer == Min((1..MaxLayers)
                          \ LayersInUse(st.handlers, st.mapLayers, st.measurementLayers))
             next ==
                 IF Len(points) = 1
                 THEN [st EXCEPT !.handlers[i].points = points,
                                 !.handlers[i].layer = layer,
                                 !.mapLayers = @ \cup {layer},
                                 !.measurementLayers = <<layer>>]
                 ELSE IF h.mode = "line"
                 THEN [st EXCEPT !.handlers[i].points = points,
                                 !.popup = [label |-> "Distance",
                                            text |-> formatDistance(Whole(calculateLineDistance(points)), h.units)]]
                 ELSE IF Len(points) >= 3
                 THEN [st EXCEPT !.handlers[i].points = points,
                                 !.popup = [label |-> "Area",
                                            text |-> formatArea(calculatePolygonArea(points), h.units)]]
                 ELSE [st EXCEPT !.handlers[i].points = points]
         IN FireClick(next, i + 1, latlng)

(***************************************************************************)
(* One geometry value of one record in the rebuild loop (lines 263-415).   *)
(* A value is a string or something else (a number, an object).            *)
(***************************************************************************)
Str(s) == [isString |-> TRUE, s |-> s]
NotAString == [isString |-> FALSE, s |-> <<>>]

Nothing == [kind |-> "none", type |-> "null", ring |-> <<>>, latlng |-> <<>>]

\* cleanGeomData.startsWith('POLYGON') || cleanGeomData.startsWith('MULTIPOLYGON')
StartsWithPolygonTag(s) ==
    LET clean == Trim(s)
    IN clean # <<>> /\ Upper(clean[1]) \in {"POLYGON", "MULTIPOLYGON"}

\* lines 289-309: the manual parser first, window.wellknown when it gave null
ParseWkt(s, wk) ==
    LET manual == parseMultiPolygonManually(s)
    IN IF manual.type = "null" /\ wk
       THEN LET g == WellknownParse(s)
            IN [type |-> g.type, ring |-> g.ring, nested |-> g.nested]
       ELSE [type |-> manual.type, ring |-> manual.ring, nested |-> TRUE]

\* What the loop body adds to the layer group for the value v.  L.geoJSON and
\* L.circleMarker throw on coordinates that are not numbers in the expected
\* nesting; the catch of line 412 drops the value.
ProcessGeometryValue(v, wk) ==
    IF ~v.isString \/ v.s = <<>> THEN Nothing
    ELSE IF StartsWithPolygonTag(v.s) THEN
         LET g == ParseWkt(v.s, wk)
         IN IF g.type = "null" \/ ~g.nested THEN Nothing
            ELSE [kind |-> "geojson", type |-> g.type, ring |-> g.ring, latlng |-> <<>>]
    ELSE LET coords == parseCoordinates(v.s)
         IN IF ~coords.found \/ coords.lat.nan \/ coords.lng.nan THEN Nothing
            ELSE [kind |-> "circleMarker", type |-> "null", ring |-> <<>>,
                  latlng |-> <<coords.lat.v, coords.lng.v>>]

(***************************************************************************)
(* The geometry strings the parser is run on: a tag, optional white space, *)
(* opening parentheses, coordinate tokens joined by ", ", and a closing.   *)
(***************************************************************************)
Tags == {"POLYGON", "MULTIPOLYGON", "polygon"}
Gaps == {<<>>, <<" ">>}
TokenSet == {<<"0", " ", "0">>, <<"1", " ", "0">>, <<"1", " ", "1">>, <<"x", " ", "1">>}
Closings == {<<>>, <<")", ")">>, <<")", " ", ")">>, <<")", ")", ")">>, <<")", ")", " ", ")">>}

TokenLists == UNION {[1..n -> TokenSet] : n \in 0..MaxTokens}

RECURSIVE Join(_)
Join(tokens) ==
    IF tokens = <<>> THEN <<>>
    ELSE IF Len(tokens) = 1 THEN tokens[1]
    ELSE tokens[1] \o <<",", " ">> \o Join(Tail(tokens))

BuildWkt(parts) ==
    <<parts.tag>> \o parts.gap \o [i \in 1..parts.opens |-> "("]
        \o Join(parts.tokens) \o parts.closing

WktParts ==
    [tag : Tags, gap : Gaps, opens : 2..3, tokens : TokenLists, closing : Closings]

NoParts == [tag |-> "none", gap |-> <<>>, opens |-> 0, tokens |-> <<>>, closing |-> <<>>]

PointInputs ==
    { <<"POINT", "(", "1", " ", "2", ")">>, <<"1", ",", " ", "2">>, <<"x", ",", "1">>, <<"POINT", "(", "x", " ", "2", ")">> }

(***************************************************************************)
(* The map view's features and legend.  A text value is the sequence of    *)
(* its UTF-16 code units; column keys are strings.  A layer of the layer   *)
(* group is its kind, the record it was made from, hasRecord (whether the  *)
(* layer object itself carries .record: L.geoJSON returns a group, and     *)
(* onEachFeature puts .record on the polygon inside it), and its style     *)
(* with opacities in tenths.                                               *)
(***************************************************************************)
NoValue == <<78, 111, 32, 118, 97, 108, 117, 101>>

\* String(record[key] || 'No value')
CategoryOf(record, key) == IF record[key] = <<>> THEN NoValue ELSE record[key]

toLowerCase(s) == [i \in 1..Len(s) |-> IF s[i] \in 65..90 THEN s[i] + 32 ELSE s[i]]

includes(s, sub) == \E i \in 0..(Len(s) - Len(sub)) : SubSeq(s, i + 1, i + Len(sub)) = sub

defaultColors ==
    << "#3388ff", "#ff6b6b", "#4ecdc4", "#45b7d1", "#f39c12", "#e74c3c", "#9b59b6", "#2ecc71" >>

Selected(key) == key # "" /\ key # "default"

getFeatureColor(record, index, cf) ==
    IF Selected(cf) /\ record[cf] # <<>>
    THEN getColorForValue(CategoryOf(record, cf), cf)
    ELSE At(defaultColors, index % Len(defaultColors))

Layer(kind, record, hasRecord, fillColor, weight, opacity, fillOpacity) ==
    [kind |-> kind, record |-> record, hasRecord |-> hasRecord, fillColor |-> fillColor,
     weight |-> weight, opacity |-> opacity, fillOpacity |-> fillOpacity]

setStyle(layer, style) ==
    [k \in DOMAIN layer |-> IF k \in DOMAIN style THEN style[k] ELSE layer[k]]

\* the geometry texts of the record sets
PolygonText ==
    Str(BuildWkt([tag |-> "POLYGON", gap |-> <<>>, opens |-> 2,
                  tokens |-> << <<"0", " ", "0">>, <<"1", " ", "0">>, <<"1", " ", "1">> >>,
                  closing |-> <<")", ")">>]))
PointText == Str(<<"1", ",", " ", "2">>)
MalformedText ==
    Str(BuildWkt([tag |-> "POLYGON", gap |-> <<>>, opens |-> 2,
                  tokens |-> << <<"0", " ", "0">>, <<"x", " ", "1">> >>,
                  closing |-> <<")", ")">>]))

\* a polygon text with two coordinate pairs
TooFewText ==
    Str(BuildWkt([tag |-> "POLYGON", gap |-> <<>>, opens |-> 2,
                  tokens |-> << <<"0", " ", "0">>, <<"1", " ", "0">> >>,
                  closing |-> <<")", ")">>]))

\* what the rebuild loop makes of each of them, of a value that is no string
\* and of the empty string
ProcessAll(wk) ==
    [g \in {PolygonText, PointText, MalformedText, TooFewText, NotAString, Str(<<>>)}
        |-> ProcessGeometryValue(g, wk)]

\* the layers one record adds in the rebuild loop
RecordLayers(record, index, cf, lf, results) ==
    LET made == results[record.geom]
        fill == getFeatureColor(record, index, cf)
    IN IF made.kind = "geojson"
       THEN <<Layer("geojson", record, FALSE, fill, 2, 10, 3)>>
            \o (IF lf # "" /\ lf # "none" /\ record[lf] # <<>>
                THEN <<Layer("label", record, FALSE, "", 0, 10, 10)>>
                ELSE <<>>)
       ELSE IF made.kind = "circleMarker"
       THEN <<Layer("circleMarker", record, TRUE, fill, 2, 10, 8)>>
       ELSE <<>>

\* the loop over data, from record number index on
RECURSIVE AddLayers(_, _, _, _, _)
AddLayers(d, index, cf, lf, results) ==
    IF index >= Len(d) THEN <<>>
    ELSE RecordLayers(d[index + 1], index, cf, lf, results)
             \o AddLayers(d, index + 1, cf, lf, results)

\* clearLayers leaving the layers in the group
clearLayers_Keeps(ls) == ls

\* layerGroupRef.current.clearLayers()
clearLayers(ls) == <<>>

\* the rebuild effect on the layer group: clearLayers, then the loop
Rebuild(d, index, cf, lf, results) ==
    clearLayers(layers) \o AddLayers(d, index, cf, lf, results)

updateLayerVisibility(ls, hiddenVals, cf) ==
    IF ~Selected(cf) THEN ls
    ELSE [i \in 1..Len(ls) |->
            IF ls[i].hasRecord
            THEN setStyle(ls[i], IF CategoryOf(ls[i].record, cf) \in hiddenVals
                                 THEN [opacity |-> 0, fillOpacity |-> 0]
                                 ELSE [opacity |-> 10, fillOpacity |-> 3])
            ELSE ls[i]]

\* the keys of valueColorMap, in insertion order
RECURSIVE LegendValues(_, _, _)
LegendValues(d, i, cf) ==
    IF i > Len(d) THEN <<>>
    ELSE LET v == CategoryOf(d[i], cf)
         IN IF \E j \in 1..(i - 1) : CategoryOf(d[j], cf) = v
            THEN LegendValues(d, i + 1, cf)
            ELSE <<v>> \o LegendValues(d, i + 1, cf)

generateLegendData(d, cf, hiddenVals) ==
    IF ~Selected(cf) \/ Len(d) = 0 THEN <<>>
    ELSE LET values == LegendValues(d, 1, cf)
         IN [k \in 1..Len(values) |->
                [value |-> values[k],
                 color |-> getColorForValue(values[k], cf),
                 count |-> Cardinality({i \in 1..Len(d) : CategoryOf(d[i], cf) = values[k]}),
                 visible |-> values[k] \notin hiddenVals]]

\* eachLayer stops at the first layer without setStyle (a label marker):
\* the TypeError leaves the handler
Styled(ls) ==
    IF \E i \in 1..Len(ls) : ls[i].kind = "label"
    THEN Min({i \in 1..Len(ls) : ls[i].kind = "label"}) - 1
    ELSE Len(ls)

applyFilter(ls, ff, fv) ==
    [i \in 1..Len(ls) |->
        IF i > Styled(ls) THEN ls[i]
        ELSE IF /\ ls[i].hasRecord
                /\ ls[i].record[ff] # <<>>
                /\ includes(toLowerCase(ls[i].record[ff]), toLowerCase(fv))
        THEN setStyle(ls[i], [opacity |-> 10, fillOpacity |-> 6])
        ELSE setStyle(ls[i], [opacity |-> 3, fillOpacity |-> 1])]

clearFilter(ls) ==
    [i \in 1..Len(ls) |->
        IF i > Styled(ls) THEN ls[i]
        ELSE setStyle(ls[i], [opacity |-> 10, fillOpacity |-> 3])]

(***************************************************************************)
(* The feature popup.  A column descriptor is its key, its permission and  *)
(* its isGeometry flag.  The popup's content is the list of its fields     *)
(* (the key, the text of .popup-value, whether an input was written for    *)
(* it, the input's value, and whether the input is the one displayed) and  *)
(* the buttons displayed: "none" when no button was written, "edit" for    *)
(* Edit, "save" for Save and Cancel.  <<>> stands for '' and undefined.    *)
(***************************************************************************)
Column(key, permission, isGeometry) ==
    [key |-> key, permission |-> permission, isGeometry |-> isGeometry]

visibleColumns(cols) == SelectSeq(cols, LAMBDA col : col.permission # "hidden")

editableColumns(cols) ==
    SelectSeq(visibleColumns(cols), LAMBDA col : col.permission = "edit" /\ ~col.isGeometry)

geometryColumns(cols) == SelectSeq(cols, LAMBDA col : col.isGeometry)

\* record[key]
Get(record, key) == IF key \in DOMAIN record THEN record[key] ELSE <<>>

NA == <<78, 47, 65>>

PopupCap == 6

\* Array.prototype.slice(0, n)
Take(s, n) == SubSeq(s, 1, IF Len(s) < n THEN Len(s) ELSE n)

\* The template of lines 746-755 writes the value into the markup of the
\* popup as it is, and Leaflet gives the markup to innerHTML: a value that
\* holds the text of a tag is parsed as that element.  InputTag(key) is the
\* text <input class=popup-input data-field=key>.
InputTagStart ==
    <<
       60, 105, 110, 112, 117, 116, 32, 99, 108, 97, 115, 115, 61, 112, 111, 112, 117, 112,
       45, 105, 110, 112, 117, 116, 32, 100, 97, 116, 97, 45, 102, 105, 101, 108, 100, 61 >>

KeyUnits(key) ==
    CASE key = "Id" -> <<73, 100>>
      [] key = "geom" -> <<103, 101, 111, 109>>
      [] key = "geom2" -> <<103, 101, 111, 109, 50>>
      [] key = "status" -> <<115, 116, 97, 116, 117, 115>>
      [] OTHER -> <<>>

InputTag(key) == InputTagStart \o KeyUnits(key) \o <<62>>

\* the data-field attributes of the .popup-input elements inside the
\* .popup-value element whose content was written from v
ParsedInputs(v) ==
    {key \in {"Id", "geom", "geom2", "status"} :
        \E i \in 0..(Len(v) - Len(InputTag(key))) :
            SubSeq(v, i + 1, i + Len(InputTag(key))) = InputTag(key)}

PopupField(record, col) ==
    LET v == Get(record, col.key)
    IN [key |-> col.key,
        text |-> IF v = <<>> THEN NA ELSE v,
        parsed |-> ParsedInputs(v),
        canEdit |-> col.permission = "edit",
        input |-> v,
        editing |-> FALSE]

createPopupContent(record, geometryCol, cols) ==
    LET listed == SelectSeq(visibleColumns(cols),
                            LAMBDA col : col.key # "id" /\ col.key # geometryCol /\ col.key # "Id")
        shown == Take(listed, PopupCap)
    IN [fields |-> [i \in 1..Len(shown) |-> PopupField(record, shown[i])],
        buttons |-> IF Len(editableColumns(cols)) > 0 THEN "edit" ELSE "none"]

NoContent == [geometryCol |-> "", popup |-> [fields |-> <<>>, buttons |-> "none"]]

NoDom == [open |-> FALSE, recordId |-> 0, fields |-> <<>>, buttons |-> "none"]

ZoomIdle == fitted = <<>>

PopupIdle ==
    /\ columns = <<>>
    /\ content = NoContent
    /\ domPopup = NoDom
    /\ selectedFeature = <<>>
    /\ editingFeature = <<>>
    /\ saving = <<>>
    /\ updateCalls = 0
    /\ alerts = 0

LoadIdle ==
    /\ page = "MapView"
    /\ isLoading = FALSE
    /\ windowL = FALSE
    /\ leafletScripts = <<>>
    /\ wellknownScripts = <<>>
    /\ runs = <<>>
    /\ mapInstance = 0
    /\ isMapInitialized = FALSE
    /\ rendered = <<>>

ParseIdle ==
    /\ geomData = NotAString
    /\ wktParts = NoParts
    /\ wellknown = FALSE
    /\ geometry = NullGeometry
    /\ added = Nothing
    /\ ppc = "idle"

ColorIdle ==
    /\ value = <<>>
    /\ field = ""
    /\ color = "none"
    /\ firstColor = "none"

UiIdle ==
    /\ data = <<>>
    /\ processed = <<>>
    /\ layers = <<>>
    /\ hiddenValues = {}
    /\ legendItems = <<>>
    /\ colorField = ""
    /\ labelField = ""
    /\ filterField = ""
    /\ filterValue = <<>>

FormatIdle ==
    /\ clicked = <<>>
    /\ amount = Whole(0)
    /\ text = NoText

SessionIdle ==
    /\ measurementMode = "none"
    /\ measurementLayers = <<>>
    /\ mapLayers = {}
    /\ handlers = <<>>
    /\ popup = NoPopup
    /\ cursor = ""

MeasureIdle ==
    /\ measurementUnits = "metric"
    /\ SessionIdle

InitParse ==
    /\ UiIdle
    /\ ColorIdle
    /\ FormatIdle
    /\ MeasureIdle
    /\ \/ /\ wktParts \in WktParts
          /\ geomData = Str(BuildWkt(wktParts))
       \/ /\ wktParts = NoParts
          /\ geomData \in {Str(s) : s \in PointInputs} \cup {NotAString}
    /\ wellknown \in BOOLEAN
    /\ geometry = NullGeometry
    /\ added = Nothing
    /\ ppc = "start"
    /\ PopupIdle
    /\ LoadIdle
    /\ ZoomIdle

\* parseMultiPolygonManually applied to the string
ParseManually ==
    /\ ppc = "start"
    /\ geomData.isString
    /\ geometry' = parseMultiPolygonManually(geomData.s)
    /\ ppc' = "parsed"
    /\ UNCHANGED <<geomData, wktParts, wellknown, added, colorVars, formatVars, measureVars, uiVars>>
    /\ UNCHANGED popupVars
    /\ UNCHANGED loadVars
    /\ UNCHANGED zoomVars

\* the body of the rebuild loop for the value
ProcessGeometry ==
    /\ ppc \in {"start", "parsed"}
    /\ added' = ProcessGeometryValue(geomData, wellknown)
    /\ ppc' = "built"
    /\ UNCHANGED <<geomData, wktParts, wellknown, geometry, colorVars, formatVars, measureVars, uiVars>>
    /\ UNCHANGED popupVars
    /\ UNCHANGED loadVars
    /\ UNCHANGED zoomVars

NextParse == ParseManually \/ ProcessGeometry

SpecParse == InitParse /\ [][NextParse]_vars

(***************************************************************************)
(* Claims about the parser.                                                *)
(***************************************************************************)
ValidTokens == {<<"0", " ", "0">>, <<"1", " ", "0">>, <<"1", " ", "1">>}

\* the coordinate pairs written in the valid tokens, in order
RECURSIVE WrittenPairs(_)
WrittenPairs(tokens) ==
    IF tokens = <<>> THEN <<>>
    ELSE (IF Head(tokens) \in ValidTokens
          THEN <<<<ParseFloatLexeme(Head(tokens)[1]).v, ParseFloatLexeme(Head(tokens)[3]).v>>>>
          ELSE <<>>) \o WrittenPairs(Tail(tokens))

\* POLYGON((...)) in either case, with or without white space around the
\* parentheses, holding at least 3 valid coordinate pairs
WellFormedPolygon(parts) ==
    /\ Upper(parts.tag) = "POLYGON"
    /\ parts.opens = 2
    /\ parts.closing \in {<<")", ")">>, <<")", " ", ")">>}
    /\ Len(WrittenPairs(parts.tokens)) >= 3

\* C4: for every well-formed POLYGON((...)) string with at least 3 valid
\* coordinate pairs the manual parser returns a Polygon whose ring starts and
\* ends with the same coordinate: the written pairs, with the first appended
\* when the written ring is open and nothing added when it is closed.
C4_ManualParserClosesRing ==
    (ppc = "parsed" /\ WellFormedPolygon(wktParts)) =>
        LET pairs == WrittenPairs(wktParts.tokens)
            ring == geometry.ring
        IN /\ geometry.type = "Polygon"
           /\ ring[1] = ring[Len(ring)]
           /\ ring = IF pairs[1] = pairs[Len(pairs)] THEN pairs ELSE Append(pairs, pairs[1])

\* an open ring was parsed and the first point was appended
C4_Witness ==
    /\ ppc = "parsed"
    /\ WellFormedPolygon(wktParts)
    /\ WrittenPairs(wktParts.tokens)[1] # WrittenPairs(wktParts.tokens)[Len(WrittenPairs(wktParts.tokens))]
    /\ Len(geometry.ring) = Len(WrittenPairs(wktParts.tokens)) + 1

TaggedMultiPolygon(v) ==
    v.isString /\ Trim(v.s) # <<>> /\ Upper(Trim(v.s)[1]) = "MULTIPOLYGON"

\* C5: for every string tagged MULTIPOLYGON without ")))" nothing
\* is added to the map, whether or not window.wellknown is loaded.
C5_NoFeatureWithoutTripleClose ==
    (ppc = "built" /\ TaggedMultiPolygon(geomData) /\ ~IncludesTripleClose(geomData.s))
        => added = Nothing

(***************************************************************************)
(* Calls of getColorForValue on one string, with any field argument, as    *)
(* the legend and the feature styling make them on every rebuild.          *)
(***************************************************************************)
CodeUnits == {65, 98, 65535}
ValueStrings == UNION {[1..n -> CodeUnits] : n \in 0..MaxValueLen}
FieldArgs == {"status", "zone", "default"}

InitColor ==
    /\ UiIdle
    /\ ParseIdle
    /\ FormatIdle
    /\ MeasureIdle
    /\ value \in ValueStrings
    /\ field = ""
    /\ color = "none"
    /\ firstColor = "none"
    /\ PopupIdle
    /\ LoadIdle
    /\ ZoomIdle

CallGetColorForValue(f) ==
    /\ color' = getColorForValue(value, f)
    /\ field' = f
    /\ firstColor' = IF firstColor = "none" THEN color' ELSE firstColor
    /\ UNCHANGED <<value, parseVars, formatVars, measureVars, uiVars>>
    /\ UNCHANGED popupVars
    /\ UNCHANGED loadVars
    /\ UNCHANGED zoomVars

NextColor == \E f \in FieldArgs : CallGetColorForValue(f)

SpecColor == InitColor /\ [][NextColor]_vars

\* C10: every call of getColorForValue returns one of the 15 palette colours,
\* for the empty string and for strings whose hash leaves 32 bits, and every
\* call on the same string returns the colour of the first call, whatever
\* the field argument.
C10_ColorTotalAndStable ==
    color # "none" =>
        /\ \E i \in 1..15 : color = colors[i]
        /\ Len(colors) = 15
        /\ color = firstColor

\* a string whose hash is negative and beyond 32 bits was coloured twice
C10_Witness ==
    /\ color # "none"
    /\ IsNegative(HashLoop(value, 1, Wide(0, 0)))
    /\ HashLoop(value, 1, Wide(0, 0)).q < -16
    /\ field = "zone"
    /\ firstColor = color

(***************************************************************************)
(* formatDistance and formatArea applied to numbers around their           *)
(* thresholds: whole numbers, and numbers 1 / FracDen below and above.     *)
(***************************************************************************)
Thresholds == {1000, 1609, 4047, 10000}
Amounts ==
    {Real(w, n) : w \in (0..Spread) \cup UNION {(t - Spread)..(t + Spread) : t \in Thresholds},
                  n \in {-1, 0, 1}}

InitFormat ==
    /\ UiIdle
    /\ ParseIdle
    /\ ColorIdle
    /\ SessionIdle
    /\ measurementUnits \in {"metric", "imperial"}
    /\ clicked = <<>>
    /\ amount \in {a \in Amounts : ~Below(a, 0)}
    /\ text = NoText
    /\ PopupIdle
    /\ LoadIdle
    /\ ZoomIdle

FormatDistance ==
    /\ text' = formatDistance(amount, measurementUnits)
    /\ UNCHANGED <<clicked, amount, measureVars, parseVars, colorVars, uiVars>>
    /\ UNCHANGED popupVars
    /\ UNCHANGED loadVars
    /\ UNCHANGED zoomVars

FormatArea ==
    /\ text' = formatArea(amount, measurementUnits)
    /\ UNCHANGED <<clicked, amount, measureVars, parseVars, colorVars, uiVars>>
    /\ UNCHANGED popupVars
    /\ UNCHANGED loadVars
    /\ UNCHANGED zoomVars

NextFormat == FormatDistance \/ FormatArea

SpecFormat == InitFormat /\ [][NextFormat]_vars

IsDistanceText == text.unit \in {"m", "km", "ft", "miles"}
IsAreaText == text.unit \in {"sq m", "hectares", "sq ft", "acres"}

\* C8: in metric mode formatDistance reports metres with two decimals below
\* 1000 and kilometres from 1000 on (1000 gives "1.00 km", 999 gives
\* "999.00 m"); in imperial mode it reports feet when meters * 3.28084 is
\* below 5280 and miles otherwise.
C8_FormatDistanceUnits ==
    IsDistanceText =>
        /\ measurementUnits = "metric" =>
              /\ text.unit = IF Below(amount, 1000) THEN "m" ELSE "km"
              /\ amount = Whole(1000) => text = Shown(100, "km")
              /\ amount = Whole(999) => text = Shown(99900, "m")
              /\ (text.unit = "m" /\ amount.n = 0) => text.figure = amount.w * 100
        /\ measurementUnits = "imperial" =>
              text.unit = IF amount.w <= 1609 /\ Below(Times(amount, 328084), 528000000)
                          THEN "ft" ELSE "miles"

\* exactly 1000 metres was formatted in metric mode
C8_Witness ==
    /\ measurementUnits = "metric"
    /\ amount = Whole(1000)
    /\ text = Shown(100, "km")

\* C9: in metric mode formatArea reports "sq m" below 10000 and hectares from
\* 10000 on (10000 gives hectares, 9999 gives sq m); in imperial mode it
\* reports "sq ft" when sqMeters * 10.764 is below 43560 and acres otherwise.
C9_FormatAreaUnits ==
    IsAreaText =>
        /\ measurementUnits = "metric" =>
              /\ text.unit = IF Below(amount, 10000) THEN "sq m" ELSE "hectares"
              /\ amount = Whole(10000) => text = Shown(100, "hectares")
              /\ amount = Whole(9999) => text = Shown(999900, "sq m")
        /\ measurementUnits = "imperial" =>
              text.unit = IF amount.w <= 4047 /\ Below(Times(amount, 10764), 43560000)
                          THEN "sq ft" ELSE "acres"

\* exactly 10000 square metres was formatted in metric mode
C9_Witness ==
    /\ measurementUnits = "metric"
    /\ amount = Whole(10000)
    /\ text = Shown(100, "hectares")

(***************************************************************************)
(* A measurement session: the Distance and Area buttons, the units select, *)
(* the Clear button, and clicks and double clicks on the map.              *)
(***************************************************************************)
ClickPoints == {<<0, 0>>, <<0, 1>>, <<1, 0>>}

InitMeasure ==
    /\ UiIdle
    /\ ParseIdle
    /\ ColorIdle
    /\ FormatIdle
    /\ MeasureIdle
    /\ PopupIdle
    /\ LoadIdle
    /\ ZoomIdle

\* startMeasurement(mode), from the button of a mode that is not active
StartMeasurement(mode) ==
    /\ measurementMode # mode
    /\ Len(handlers) < MaxHandlers
    /\ measurementMode' = mode
    /\ cursor' = "crosshair"
    /\ mapLayers' = mapLayers \ {measurementLayers[i] : i \in 1..Len(measurementLayers)}
    /\ measurementLayers' = <<>>
    /\ handlers' = Append(handlers, Handler(mode, measurementUnits))
    /\ UNCHANGED <<measurementUnits, popup, parseVars, colorVars, formatVars, uiVars>>
    /\ UNCHANGED popupVars
    /\ UNCHANGED loadVars
    /\ UNCHANGED zoomVars

\* clearMeasurements, from the button of the active mode or from Clear
ClearMeasurements ==
    /\ measurementMode # "none" \/ Len(measurementLayers) > 0
    /\ mapLayers' = mapLayers \ {measurementLayers[i] : i \in 1..Len(measurementLayers)}
    /\ measurementLayers' = <<>>
    /\ measurementMode' = "none"
    /\ cursor' = ""
    /\ UNCHANGED <<measurementUnits, handlers, popup, parseVars, colorVars, formatVars, uiVars>>
    /\ UNCHANGED popupVars
    /\ UNCHANGED loadVars
    /\ UNCHANGED zoomVars

\* the units select
SetMeasurementUnits(units) ==
    /\ measurementUnits # units
    /\ measurementUnits' = units
    /\ UNCHANGED <<sessionVars, parseVars, colorVars, formatVars, uiVars>>
    /\ UNCHANGED popupVars
    /\ UNCHANGED loadVars
    /\ UNCHANGED zoomVars

\* a click on the map: every registered onMapClick runs, in order
MapClick(latlng) ==
    /\ Len(handlers) > 0
    /\ \A i \in 1..Len(handlers) : Len(handlers[i].points) < MaxPoints
    /\ Cardinality(LayersInUse(handlers, mapLayers, measurementLayers))
           + Cardinality({i \in 1..Len(handlers) : handlers[i].layer = 0}) <= MaxLayers
    /\ LET st == FireClick([handlers |-> handlers, mapLayers |-> mapLayers,
                            measurementLayers |-> measurementLayers, popup |-> popup],
                           1, latlng)
       IN /\ handlers' = st.handlers
          /\ mapLayers' = st.mapLayers
          /\ measurementLayers' = st.measurementLayers
          /\ popup' = st.popup
    /\ UNCHANGED <<measurementMode, measurementUnits, cursor, parseVars, colorVars, formatVars, uiVars>>
    /\ UNCHANGED popupVars
    /\ UNCHANGED loadVars
    /\ UNCHANGED zoomVars

\* a double click on the map: every registered onMapDblClick runs
MapDblClick ==
    /\ Len(handlers) > 0
    /\ handlers' = <<>>
    /\ cursor' = ""
    /\ measurementMode' = "none"
    /\ UNCHANGED <<measurementUnits, measurementLayers, mapLayers, popup,
                   parseVars, colorVars, formatVars, uiVars>>
    /\ UNCHANGED popupVars
    /\ UNCHANGED loadVars
    /\ UNCHANGED zoomVars

NextMeasure ==
    \/ \E mode \in {"line", "area"} : StartMeasurement(mode)
    \/ ClearMeasurements
    \/ \E units \in {"metric", "imperial"} : SetMeasurementUnits(units)
    \/ \E latlng \in ClickPoints : MapClick(latlng)
    \/ MapDblClick

SpecMeasure == InitMeasure /\ [][NextMeasure]_vars

\* C7: in area mode with metric units, three clicks on the corners of a
\* right triangle with two legs of 100 m open a popup "Area: ..." with a
\* figure near 5000 in "sq m" (here: from 2500 to 10000).
C7_TriangleNear5000 ==
    (/\ measurementMode = "area"
     /\ measurementUnits = "metric"
     /\ Len(handlers) = 1
     /\ handlers[1].mode = "area"
     /\ handlers[1].units = "metric"
     /\ Len(handlers[1].points) = 3
     /\ {handlers[1].points[i] : i \in 1..3} = {<<0, 0>>, <<0, 1>>, <<1, 0>>})
    => /\ popup.label = "Area"
       /\ popup.text.unit = "sq m"
       /\ popup.text.figure \in (2500 * 100)..(10000 * 100)

(***************************************************************************)
(* calculatePolygonArea applied to lists of 3 or more points of the grid   *)
(* around the origin.                                                      *)
(***************************************************************************)
GridPoints == {<<lat, lng>> : lat \in -1..1, lng \in -1..1}

InitArea ==
    /\ UiIdle
    /\ ParseIdle
    /\ ColorIdle
    /\ MeasureIdle
    /\ clicked \in UNION {[1..n -> GridPoints] : n \in 3..MaxPoints}
    /\ amount = Whole(0)
    /\ text = NoText
    /\ PopupIdle
    /\ LoadIdle
    /\ ZoomIdle

CalculatePolygonArea ==
    /\ text = NoText
    /\ amount' = calculatePolygonArea(clicked)
    /\ text' = formatArea(amount', measurementUnits)
    /\ UNCHANGED <<clicked, measureVars, parseVars, colorVars, uiVars>>
    /\ UNCHANGED popupVars
    /\ UNCHANGED loadVars
    /\ UNCHANGED zoomVars

NextArea == CalculatePolygonArea

SpecArea == InitArea /\ [][NextArea]_vars

\* (north - south) * (east - west) * 111320 * 111320 for points on the grid
BoundingBoxArea(points) ==
    Whole((getNorth(points) - getSouth(points)) * (getEast(points) - getWest(points)) * 100 * 100)

\* C6: for every list of 3 or more clicked points calculatePolygonArea
\* returns (north - south) * (east - west) * 111320 * 111320 of the points'
\* bounding box, which is 0 when the box is degenerate.
C6_AreaIsBoundingBox ==
    text # NoText => amount = BoundingBoxArea(clicked)

(***************************************************************************)
(* The map view after the map is initialised: the legend, the colour,      *)
(* label and filter controls, the pointer over a polygon, and a new record *)
(* set.  Every state change renders the component again, and every render  *)
(* runs the rebuild effect, whose dependencies visibleColumns and          *)
(* geometryColumns are new arrays in every render (lines 54-56, 455).      *)
(***************************************************************************)
Active == <<65, 99, 116, 105, 118, 101>>
Inactive == <<73, 110, 97, 99, 116, 105, 118, 101>>

Record(id, geom, status) == [Id |-> id, geom |-> geom, status |-> status]

DataSets ==
    { << Record(1, PolygonText, Active), Record(2, PointText, Active),
         Record(3, PointText, Inactive) >>,
      << Record(1, PolygonText, Inactive), Record(2, PointText, <<>>),
         Record(3, MalformedText, Active) >> }

\* records identified by a lower-case id field
LowerIdSet ==
    << [id |-> 1, geom |-> PointText, status |-> Active],
       [id |-> 2, geom |-> PointText, status |-> Inactive] >>

ViewDataSets == DataSets \cup {LowerIdSet}

FilterValues == {<<>>, <<73, 78>>}

\* zoomToRecord: the layers of the group it sets the view to, in order
zoomToRecord(ls, record) ==
    SelectSeq(ls, LAMBDA layer : layer.hasRecord /\ Get(layer.record, "Id") = Get(record, "Id"))

Init ==
    /\ ParseIdle
    /\ ColorIdle
    /\ FormatIdle
    /\ MeasureIdle
    /\ data \in DataSets
    /\ processed = ProcessAll(wellknown)
    /\ layers = AddLayers(data, 0, "", "", processed)
    /\ hiddenValues = {}
    /\ legendItems = <<>>
    /\ colorField = ""
    /\ labelField = ""
    /\ filterField = ""
    /\ filterValue = <<>>
    /\ PopupIdle
    /\ LoadIdle
    /\ ZoomIdle

notUi == <<parseVars, colorVars, formatVars, measureVars>>

\* a click on the legend item of value v
ToggleLegendItem(v) ==
    /\ \E k \in 1..Len(legendItems) : legendItems[k].value = v
    /\ hiddenValues' = IF v \in hiddenValues THEN hiddenValues \ {v} ELSE hiddenValues \cup {v}
    /\ layers' = updateLayerVisibility(Rebuild(data, 0, colorField, labelField, processed),
                                       hiddenValues', colorField)
    /\ UNCHANGED <<data, processed, legendItems, colorField, labelField, filterField, filterValue, notUi>>
    /\ UNCHANGED popupVars
    /\ UNCHANGED loadVars
    /\ UNCHANGED zoomVars

\* the Show All button, rendered while some stored legend item is not visible
ShowAll ==
    /\ \E k \in 1..Len(legendItems) : ~legendItems[k].visible
    /\ hiddenValues' = {}
    /\ legendItems' = [k \in 1..Len(legendItems) |-> [legendItems[k] EXCEPT !.visible = TRUE]]
    /\ layers' = updateLayerVisibility(Rebuild(data, 0, colorField, labelField, processed),
                                       hiddenValues', colorField)
    /\ UNCHANGED <<data, processed, colorField, labelField, filterField, filterValue, notUi>>
    /\ UNCHANGED popupVars
    /\ UNCHANGED loadVars
    /\ UNCHANGED zoomVars

\* the "Color by" select
SetColorField(key) ==
    /\ key # colorField
    /\ colorField' = key
    /\ legendItems' = generateLegendData(data, key, hiddenValues)
    /\ layers' = Rebuild(data, 0, key, labelField, processed)
    /\ UNCHANGED <<data, processed, hiddenValues, labelField, filterField, filterValue, notUi>>
    /\ UNCHANGED popupVars
    /\ UNCHANGED loadVars
    /\ UNCHANGED zoomVars

\* the "Label Field" select
SetLabelField(key) ==
    /\ key # labelField
    /\ labelField' = key
    /\ layers' = Rebuild(data, 0, colorField, key, processed)
    /\ UNCHANGED <<data, processed, hiddenValues, legendItems, colorField, filterField, filterValue, notUi>>
    /\ UNCHANGED popupVars
    /\ UNCHANGED loadVars
    /\ UNCHANGED zoomVars

\* the "Filter Field" select
SetFilterField(key) ==
    /\ key # filterField
    /\ filterField' = key
    /\ layers' = Rebuild(data, 0, colorField, labelField, processed)
    /\ UNCHANGED <<data, processed, hiddenValues, legendItems, colorField, labelField, filterValue, notUi>>
    /\ UNCHANGED popupVars
    /\ UNCHANGED loadVars
    /\ UNCHANGED zoomVars

\* typing in the filter input, shown once a filter field is chosen
SetFilterValue(v) ==
    /\ filterField # ""
    /\ v # filterValue
    /\ filterValue' = v
    /\ layers' = Rebuild(data, 0, colorField, labelField, processed)
    /\ UNCHANGED <<data, processed, hiddenValues, legendItems, colorField, labelField, filterField, notUi>>
    /\ UNCHANGED popupVars
    /\ UNCHANGED loadVars
    /\ UNCHANGED zoomVars

\* the Apply button
ApplyFilter ==
    /\ filterField # ""
    /\ filterValue # <<>>
    /\ layers' = applyFilter(layers, filterField, filterValue)
    /\ UNCHANGED <<data, processed, hiddenValues, legendItems, colorField, labelField, filterField,
                   filterValue, notUi>>
    /\ UNCHANGED popupVars
    /\ UNCHANGED loadVars
    /\ UNCHANGED zoomVars

\* the Clear button of the filter
ClearFilter ==
    /\ filterField # ""
    /\ IF Styled(layers) < Len(layers)
       THEN /\ layers' = clearFilter(layers)
            /\ UNCHANGED <<filterField, filterValue>>
       ELSE /\ filterField' = ""
            /\ filterValue' = <<>>
            /\ layers' = Rebuild(data, 0, colorField, labelField, processed)
    /\ UNCHANGED <<data, processed, hiddenValues, legendItems, colorField, labelField, notUi>>
    /\ UNCHANGED popupVars
    /\ UNCHANGED loadVars
    /\ UNCHANGED zoomVars

\* the pointer enters / leaves the polygon of layer i
MouseOver(i) ==
    /\ layers[i].kind = "geojson"
    /\ layers' = [layers EXCEPT ![i] = setStyle(@, [weight |-> 3, fillOpacity |-> 7])]
    /\ UNCHANGED <<data, processed, hiddenValues, legendItems, colorField, labelField, filterField,
                   filterValue, notUi>>
    /\ UNCHANGED popupVars
    /\ UNCHANGED loadVars
    /\ UNCHANGED zoomVars

MouseOut(i) ==
    /\ layers[i].kind = "geojson"
    /\ layers' = [layers EXCEPT ![i] = setStyle(@, [weight |-> 2, fillOpacity |-> 3])]
    /\ UNCHANGED <<data, processed, hiddenValues, legendItems, colorField, labelField, filterField,
                   filterValue, notUi>>
    /\ UNCHANGED popupVars
    /\ UNCHANGED loadVars
    /\ UNCHANGED zoomVars

\* the parent passes a new record set
DataChange(d) ==
    /\ d # data
    /\ data' = d
    /\ legendItems' = generateLegendData(d, colorField, hiddenValues)
    /\ layers' = Rebuild(d, 0, colorField, labelField, processed)
    /\ UNCHANGED <<processed, hiddenValues, colorField, labelField, filterField, filterValue, notUi>>
    /\ UNCHANGED popupVars
    /\ UNCHANGED loadVars
    /\ UNCHANGED zoomVars

Next ==
    \/ \E v \in {Active, Inactive, NoValue} : ToggleLegendItem(v)
    \/ ShowAll
    \/ \E key \in {"default", "status"} : SetColorField(key)
    \/ \E key \in {"none", "status"} : SetLabelField(key)
    \/ \E key \in {"status"} : SetFilterField(key)
    \/ \E v \in FilterValues : SetFilterValue(v)
    \/ ApplyFilter
    \/ ClearFilter
    \/ \E i \in 1..Len(layers) : MouseOver(i)
    \/ \E i \in 1..Len(layers) : MouseOut(i)
    \/ \E d \in DataSets : DataChange(d)

Spec == Init /\ [][Next]_vars

IsFeature(layer) == layer.kind \in {"geojson", "circleMarker"}
IsHidden(layer) == layer.opacity = 0 /\ layer.fillOpacity = 0
IsShown(layer) == layer.opacity > 0 /\ layer.fillOpacity > 0

\* every feature is hidden exactly when its category value is in
\* hiddenValues, and shown otherwise
LegendInvariant ==
    \A i \in 1..Len(layers) :
        IsFeature(layers[i]) =>
            IF CategoryOf(layers[i].record, colorField) \in hiddenValues
            THEN IsHidden(layers[i])
            ELSE IsShown(layers[i])

\* C1: with a colour field selected, after every toggleLegendItem and every
\* Show All each feature on the map, polygon or point marker, is hidden
\* (stroke and fill opacity 0) exactly when its category value is in
\* hiddenValues and is shown otherwise.
C1_LegendInvariantAfterToggle ==
    [][((\E v \in {Active, Inactive, NoValue} : ToggleLegendItem(v)) \/ ShowAll)
          => LegendInvariant']_vars

\* C2: in every reachable state (after mouseover or mouseout, applyFilter,
\* clearFilter, a change of colorField, a re-render that rebuilds the layers)
\* a feature whose category value is in hiddenValues has opacity 0 and fill
\* opacity 0.  Stated for the point markers, the features that
\* toggleLegendItem does hide, with a colour field selected.
C2_HiddenStaysHidden ==
    Selected(colorField) =>
        \A i \in 1..Len(layers) :
            (/\ layers[i].kind = "circleMarker"
             /\ CategoryOf(layers[i].record, colorField) \in hiddenValues)
            => IsHidden(layers[i])

\* C3: in every reachable state each stored legend item's visible flag
\* equals !hiddenValues.has(item.value).
C3_LegendVisibleMatchesHidden ==
    \A k \in 1..Len(legendItems) :
        legendItems[k].visible = (legendItems[k].value \notin hiddenValues)

\* C11: with a colour field selected, for every record of the record set
\* getFeatureColor(record, index) equals the colour of the legend item of
\* String(record[colorField] || 'No value'), also for records whose value
\* in the colour field is empty or otherwise falsy (the 'No value' group).
C11_FeatureColorMatchesLegend ==
    Selected(colorField) =>
        \A i \in 1..Len(data) :
            \E k \in 1..Len(legendItems) :
                /\ legendItems[k].value = CategoryOf(data[i], colorField)
                /\ legendItems[k].color = getFeatureColor(data[i], i - 1, colorField)

\* C12: after any sequence of startMeasurement('line'),
\* startMeasurement('area'), clearMeasurements and double clicks at most one
\* click handler, line or area, is registered on the map, so that one map
\* click appends a point to at most one session.
C12_AtMostOneClickHandler ==
    Len(handlers) <= 1

\* C13: each teardown (the button of the active mode or Clear, both
\* clearMeasurements, and a double click) leaves measurementMode 'none' and
\* the cursor reset, and while measurementMode is 'none' a map click
\* appends no point, draws no layer and opens no popup.
C13_TornDownSessionIgnoresClicks ==
    [][/\ (ClearMeasurements \/ MapDblClick) => (measurementMode' = "none" /\ cursor' = "")
       /\ (measurementMode = "none" /\ \E latlng \in ClickPoints : MapClick(latlng))
              => UNCHANGED <<handlers, popup, mapLayers, measurementLayers>>]_vars

(***************************************************************************)
(* createPopupContent applied to lists of column descriptors: the first    *)
(* MaxColumns keys of Keys at most, each column with any permission, and   *)
(* the columns "geom" and "geom2" flagged isGeometry or not.  The rebuild  *)
(* calls it once for every geometry column of the record (lines 270, 327,  *)
(* 398).                                                                   *)
(***************************************************************************)
Keys == <<"Id", "geom", "geom2", "status", "name", "c1", "c2", "c3", "c4", "c5", "c6", "c7">>

Permissions == {"view", "edit", "hidden"}

\* the list of the first n columns with the permissions perm, those at the
\* positions geo flagged isGeometry
ColumnList(n, perm, geo) == [i \in 1..n |-> Column(Keys[i], perm[i], i \in geo)]

\* the record the popup is made for: a text in every column but "name"
ContentRecord ==
    [key \in {Keys[i] : i \in 1..Len(Keys)} |-> IF key = "name" THEN <<>> ELSE <<120>>]

InitContent ==
    /\ UiIdle
    /\ ParseIdle
    /\ ColorIdle
    /\ FormatIdle
    /\ MeasureIdle
    /\ \E n \in 1..MaxColumns :
          \E perm \in [1..n -> Permissions], geo \in SUBSET ({2, 3} \cap 1..n) :
              columns = ColumnList(n, perm, geo)
    /\ content = NoContent
    /\ domPopup = NoDom
    /\ selectedFeature = <<>>
    /\ editingFeature = <<>>
    /\ saving = <<>>
    /\ updateCalls = 0
    /\ alerts = 0
    /\ LoadIdle
    /\ ZoomIdle

CreatePopupContent(geometryCol) ==
    /\ \E i \in 1..Len(columns) : columns[i].isGeometry /\ columns[i].key = geometryCol
    /\ content.geometryCol # geometryCol
    /\ content' = [geometryCol |-> geometryCol,
                   popup |-> createPopupContent(ContentRecord, geometryCol, columns)]
    /\ UNCHANGED <<columns, domPopup, selectedFeature, editingFeature, saving, updateCalls, alerts>>
    /\ UNCHANGED <<parseVars, colorVars, formatVars, measureVars, uiVars>>
    /\ UNCHANGED loadVars
    /\ UNCHANGED zoomVars

NextContent ==
    \E geometryCol \in {"geom", "geom2"} : CreatePopupContent(geometryCol)

SpecContent == InitContent /\ [][NextContent]_vars

ColumnOf(key) == columns[CHOOSE i \in 1..Len(columns) : columns[i].key = key]

\* C15: for every record and every list of column descriptors the popup
\* built by createPopupContent lists at most 6 fields, none of them a
\* column with permission 'hidden' and none of them a geometry column, also
\* when more than one column is flagged isGeometry.
C15_PopupFieldsBounded ==
    content # NoContent =>
        /\ Len(content.popup.fields) <= 6
        /\ \A i \in 1..Len(content.popup.fields) :
              /\ ColumnOf(content.popup.fields[i].key).permission # "hidden"
              /\ ~ColumnOf(content.popup.fields[i].key).isGeometry

(***************************************************************************)
(* Editing a record in its popup.  A click on a feature opens the popup    *)
(* Leaflet made from the content string bound to the layer; Edit, Save and *)
(* Cancel call window.startEditFeature, window.saveFeature and             *)
(* window.cancelEdit.  saveFeature stops at its await: the call of         *)
(* onRecordUpdate settles in a later step.  A state setter that changes    *)
(* the state renders the component again, the render runs the rebuild      *)
(* effect, and clearLayers removes the layer the open popup is bound to,   *)
(* which closes that popup.  A call that has not settled keeps the popup   *)
(* element it read; attached tells whether that element is still the one   *)
(* in the document.                                                        *)
(***************************************************************************)
EditColumns ==
    << Column("Id", "view", FALSE), Column("geom", "view", TRUE), Column("status", "edit", FALSE) >>

EditValues == {<<>>, <<120>>}

\* what is left of a record object after the record set was fetched again
Refetched == [Id |-> 0, geom |-> NotAString, status |-> <<>>]

Detach(calls) == [i \in 1..Len(calls) |-> [calls[i] EXCEPT !.attached = FALSE]]

\* the writes of startEditFeature, saveFeature (after the await) and
\* cancelEdit to the popup element
startEditFeature(dom) ==
    [dom EXCEPT !.fields = [i \in 1..Len(dom.fields) |->
                               IF dom.fields[i].canEdit
                               THEN [dom.fields[i] EXCEPT !.editing = TRUE]
                               ELSE dom.fields[i]],
                !.buttons = "save"]

saveFeature(dom) ==
    [dom EXCEPT !.fields = [i \in 1..Len(dom.fields) |->
                               IF dom.fields[i].canEdit
                               THEN [dom.fields[i] EXCEPT
                                       !.text = IF dom.fields[i].input = <<>> THEN NA
                                                ELSE dom.fields[i].input,
                                       !.editing = FALSE]
                               ELSE dom.fields[i]],
                !.buttons = "edit"]

cancelEdit(dom) ==
    [dom EXCEPT !.fields = [i \in 1..Len(dom.fields) |->
                               IF dom.fields[i].canEdit
                               THEN [dom.fields[i] EXCEPT !.editing = FALSE]
                               ELSE dom.fields[i]],
                !.buttons = "edit"]

\* the updates object saveFeature collects from the .popup-input elements,
\* in document order: the elements parsed from the value of field i come
\* before the input written for field i, and the last one of a key stays.
\* The value of an element parsed from a value is the empty string.
Updates(dom) ==
    LET own(key) == {j \in 1..Len(dom.fields) : dom.fields[j].canEdit /\ dom.fields[j].key = key}
        parsed(key) == {i \in 1..Len(dom.fields) : key \in dom.fields[i].parsed}
        keys == {dom.fields[i].key : i \in {j \in 1..Len(dom.fields) : dom.fields[j].canEdit}}
                    \cup UNION {dom.fields[i].parsed : i \in 1..Len(dom.fields)}
    IN [key \in keys |->
           IF parsed(key) = {} \/ (own(key) # {} /\ Max(parsed(key)) <= Max(own(key)))
           THEN dom.fields[Max(own(key))].input
           ELSE <<>>]

\* the record set after the PATCH of onRecordUpdate and the refetch
Patched(d, recordId, updates) ==
    [i \in 1..Len(d) |->
        IF d[i].Id = recordId
        THEN [key \in DOMAIN d[i] |->
                 IF key \notin DOMAIN updates THEN d[i][key]
                 ELSE IF key = "geom" THEN Str(updates[key])
                 ELSE updates[key]]
        ELSE d[i]]

InitEdit ==
    /\ ParseIdle
    /\ ColorIdle
    /\ FormatIdle
    /\ MeasureIdle
    /\ data = << Record(1, PointText, Active), Record(2, PointText, <<>>),
                 Record(3, PointText, InputTag("geom")) >>
    /\ processed = ProcessAll(wellknown)
    /\ layers = AddLayers(data, 0, "", "", processed)
    /\ hiddenValues = {}
    /\ legendItems = <<>>
    /\ colorField = ""
    /\ labelField = ""
    /\ filterField = ""
    /\ filterValue = <<>>
    /\ columns = EditColumns
    /\ content = NoContent
    /\ domPopup = NoDom
    /\ selectedFeature = <<>>
    /\ editingFeature = <<>>
    /\ saving = <<>>
    /\ updateCalls = 0
    /\ alerts = 0
    /\ LoadIdle
    /\ ZoomIdle

editFrame ==
    <<processed, hiddenValues, legendItems, colorField, labelField, filterField, filterValue,
      columns, content, parseVars, colorVars, formatVars, measureVars>>

\* a click on the marker of layer i
ClickFeature(i) ==
    /\ layers[i].kind = "circleMarker"
    /\ selectedFeature' = <<layers[i].record>>
    /\ saving' = Detach(saving)
    /\ IF selectedFeature' # selectedFeature
       THEN /\ layers' = Rebuild(data, 0, colorField, labelField, processed)
            /\ domPopup' = NoDom
       ELSE /\ layers' = layers
            /\ domPopup' = [open |-> TRUE, recordId |-> layers[i].record.Id]
                               @@ createPopupContent(layers[i].record, "geom", columns)
    /\ UNCHANGED <<data, editingFeature, updateCalls, alerts, editFrame>>
    /\ UNCHANGED loadVars
    /\ UNCHANGED zoomVars

\* the Edit button
StartEditFeature ==
    /\ domPopup.open
    /\ domPopup.buttons = "edit"
    /\ editingFeature' = <<domPopup.recordId>>
    /\ IF editingFeature' # editingFeature
       THEN /\ layers' = Rebuild(data, 0, colorField, labelField, processed)
            /\ domPopup' = NoDom
            /\ saving' = Detach(saving)
       ELSE /\ layers' = layers
            /\ domPopup' = startEditFeature(domPopup)
            /\ saving' = saving
    /\ UNCHANGED <<data, selectedFeature, updateCalls, alerts, editFrame>>
    /\ UNCHANGED loadVars
    /\ UNCHANGED zoomVars

\* typing v in the input of field i
TypeInput(i, v) ==
    /\ domPopup.open
    /\ i \in 1..Len(domPopup.fields)
    /\ domPopup.fields[i].canEdit
    /\ domPopup.fields[i].editing
    /\ domPopup.fields[i].input # v
    /\ domPopup' = [domPopup EXCEPT !.fields[i].input = v]
    /\ UNCHANGED <<data, layers, selectedFeature, editingFeature, saving, updateCalls, alerts,
                   editFrame>>
    /\ UNCHANGED loadVars
    /\ UNCHANGED zoomVars

\* the Save button: saveFeature up to its await
SaveFeature ==
    /\ domPopup.open
    /\ domPopup.buttons = "save"
    /\ updateCalls < MaxSaves
    /\ updateCalls' = updateCalls + 1
    /\ saving' = Append(saving, [recordId |-> domPopup.recordId, updates |-> Updates(domPopup),
                                 attached |-> TRUE])
    /\ UNCHANGED <<data, layers, domPopup, selectedFeature, editingFeature, alerts, editFrame>>
    /\ UNCHANGED loadVars
    /\ UNCHANGED zoomVars

\* onRecordUpdate resolves: the PATCH was answered ok and the records were
\* fetched again; saveFeature goes on after its await
SaveResolved ==
    /\ Len(saving) > 0
    /\ data' = Patched(data, saving[1].recordId, saving[1].updates)
    /\ selectedFeature' = IF selectedFeature = <<>> THEN <<>> ELSE <<Refetched>>
    /\ editingFeature' = <<>>
    /\ layers' = Rebuild(data', 0, colorField, labelField, processed)
    /\ domPopup' = NoDom
    /\ saving' = Detach(Tail(saving))
    /\ UNCHANGED <<updateCalls, alerts, editFrame>>
    /\ UNCHANGED loadVars
    /\ UNCHANGED zoomVars

\* onRecordUpdate rejects: saveFeature goes on in its catch
SaveRejected ==
    /\ Len(saving) > 0
    /\ alerts' = alerts + 1
    /\ editingFeature' = <<>>
    /\ IF editingFeature' # editingFeature
       THEN /\ layers' = Rebuild(data, 0, colorField, labelField, processed)
            /\ domPopup' = NoDom
            /\ saving' = Detach(Tail(saving))
       ELSE /\ layers' = layers
            /\ domPopup' = domPopup
            /\ saving' = Tail(saving)
    /\ UNCHANGED <<data, selectedFeature, updateCalls, editFrame>>
    /\ UNCHANGED loadVars
    /\ UNCHANGED zoomVars

\* the Cancel button
CancelEdit ==
    /\ domPopup.open
    /\ domPopup.buttons = "save"
    /\ editingFeature' = <<>>
    /\ IF editingFeature' # editingFeature
       THEN /\ layers' = Rebuild(data, 0, colorField, labelField, processed)
            /\ domPopup' = NoDom
            /\ saving' = Detach(saving)
       ELSE /\ layers' = layers
            /\ domPopup' = cancelEdit(domPopup)
            /\ saving' = saving
    /\ UNCHANGED <<data, selectedFeature, updateCalls, alerts, editFrame>>
    /\ UNCHANGED loadVars
    /\ UNCHANGED zoomVars

NextEdit ==
    \/ \E i \in 1..Len(layers) : ClickFeature(i)
    \/ StartEditFeature
    \/ \E i \in 1..PopupCap, v \in EditValues : TypeInput(i, v)
    \/ SaveFeature
    \/ SaveResolved
    \/ SaveRejected
    \/ CancelEdit

SpecEdit == InitEdit /\ [][NextEdit]_vars

\* the popup shows the inputs of its editable fields with Save and Cancel
InEditMode(dom) ==
    /\ dom.open
    /\ dom.buttons = "save"
    /\ \A i \in 1..Len(dom.fields) : dom.fields[i].canEdit => dom.fields[i].editing

\* the popup shows the values with Edit, each editable field with the text
\* of its input
InViewModeWithInputs(dom) ==
    /\ dom.open
    /\ dom.buttons = "edit"
    /\ \A i \in 1..Len(dom.fields) :
          dom.fields[i].canEdit =>
              /\ ~dom.fields[i].editing
              /\ dom.fields[i].text = (IF dom.fields[i].input = <<>> THEN NA ELSE dom.fields[i].input)

\* C14: a click on Save calls onRecordUpdate(recordId, updates) once; when
\* the call resolves, the popup the edit was made in shows each edited
\* field's new value and is back in view mode; when it rejects, the inputs
\* and Save / Cancel stay shown, an alert is raised, and no displayed value,
\* feature or record is changed.
C14_SaveCommitsOrKeepsEditing ==
    [][/\ SaveFeature => updateCalls' = updateCalls + 1
       /\ (SaveResolved /\ saving[1].attached /\ InEditMode(domPopup))
              => InViewModeWithInputs(domPopup')
       /\ (SaveRejected /\ saving[1].attached /\ InEditMode(domPopup))
              => /\ InEditMode(domPopup')
                 /\ alerts' = alerts + 1
                 /\ domPopup'.fields = domPopup.fields
                 /\ layers' = layers
                 /\ data' = data]_vars

(***************************************************************************)
(* Loading Leaflet and wellknown and creating the map, for MapView         *)
(* (src/src/map-view-new.tsx) and for MapFullscreenPage                    *)
(* (src/unnamed/part_007).  The parent changes the props isLoading and     *)
(* data; the effect of dependencies [isLoading] calls initializeMap, which *)
(* stops at its two awaits; the browser settles the scripts it was given   *)
(* and fires the 5000 ms timer.  A run of initializeMap is its position    *)
(* (pc), the script element it waits for, whether its timer is armed, and  *)
(* how its wait for wellknown ended.  The map container is in the document *)
(* when the render did not take an early return (lines 1155-1176).         *)
(***************************************************************************)
Run(pc, script) == [pc |-> pc, script |-> script, timer |-> FALSE, outcome |-> "none"]

\* mapContainerRef.current is set
Mounted(pg, loading, d) ==
    IF pg = "MapView" THEN ~loading /\ Len(d) > 0 ELSE ~loading

\* the guard of the rebuild effect
RunsRebuild_Unguarded(initialized, group) == TRUE
RunsRebuild(initialized, group) == initialized /\ group

\* the features MapFullscreenPage draws from the records
RECURSIVE FullscreenFeatures(_, _, _)
FullscreenFeatures(d, i, wk) ==
    IF i > Len(d) THEN <<>>
    ELSE LET g == IF wk /\ d[i].geom.isString THEN WellknownParse(d[i].geom.s)
                  ELSE [type |-> "null", ring |-> <<>>, nested |-> FALSE]
         IN (IF g.type # "null" /\ g.nested
             THEN <<Layer("geojson", d[i], FALSE, "#3388ff", 2, 10, 4)>>
             ELSE <<>>) \o FullscreenFeatures(d, i + 1, wk)

\* "Initialize map": the run r after its awaits
createMap(w, r, mounted) ==
    IF w.mapInstance = 0 /\ mounted
    THEN [w EXCEPT !.mapInstance = r, !.isMapInitialized = TRUE, !.runs[r].pc = "done"]
    ELSE [w EXCEPT !.runs[r].pc = "done"]

\* the run r from "if (!window.wellknown)" to its next await
loadWellknown(w, r, wk, mounted, pg) ==
    IF wk
    THEN createMap([w EXCEPT !.runs[r].outcome = "present"], r, mounted)
    ELSE [w EXCEPT !.wellknownScripts = Append(@, "pending"),
                   !.runs[r] = [pc |-> "awaitWellknown", script |-> Len(w.wellknownScripts) + 1,
                                timer |-> pg = "MapView", outcome |-> "none"]]

\* a call of initializeMap up to its first await
initializeMap(w, L, wk, mounted, pg) ==
    IF ~L
    THEN [w EXCEPT !.leafletScripts = Append(@, "pending"),
                   !.runs = Append(@, Run("awaitLeaflet", Len(w.leafletScripts) + 1))]
    ELSE loadWellknown([w EXCEPT !.runs = Append(@, Run("start", 0))], Len(w.runs) + 1, wk,
                       mounted, pg)

\* the promise the run r awaits for wellknown is resolved
resolveWellknown(w, r, how, mounted) ==
    createMap([w EXCEPT !.runs[r].outcome = how, !.runs[r].timer = w.runs[r].timer /\ how # "timeout"],
              r, mounted)

World ==
    [runs |-> runs, leafletScripts |-> leafletScripts, wellknownScripts |-> wellknownScripts,
     mapInstance |-> mapInstance, isMapInitialized |-> isMapInitialized]

\* the step ends in the world w; when it rendered the component, the
\* rebuild effect ran.  Here processed holds what the loop makes of the
\* geometry texts without and with window.wellknown.
Commit(w, rerender) ==
    /\ runs' = w.runs
    /\ leafletScripts' = w.leafletScripts
    /\ wellknownScripts' = w.wellknownScripts
    /\ mapInstance' = w.mapInstance
    /\ isMapInitialized' = w.isMapInitialized
    /\ IF rerender /\ RunsRebuild(w.isMapInitialized, w.mapInstance # 0)
       THEN /\ layers' = IF page = "MapView"
                         THEN Rebuild(data', 0, colorField, labelField, processed[wellknown'])
                         ELSE FullscreenFeatures(data', 1, wellknown')
            /\ rendered' = <<data'>>
       ELSE UNCHANGED <<layers, rendered>>

loadFrame ==
    <<page, hiddenValues, legendItems, colorField, labelField, filterField, filterValue,
      geomData, wktParts, geometry, added, ppc, colorVars, formatVars, measureVars, popupVars>>

DefectiveSet ==
    << Record(1, TooFewText, Active), Record(2, NotAString, Inactive),
       Record(3, PolygonText, Active) >>

LoadDataSets == {<<>>} \cup DataSets \cup {DefectiveSet}

InitLoad ==
    /\ data = <<>>
    /\ layers = <<>>
    /\ hiddenValues = {}
    /\ legendItems = <<>>
    /\ colorField = ""
    /\ labelField = ""
    /\ filterField = ""
    /\ filterValue = <<>>
    /\ ParseIdle
    /\ processed = [wk \in BOOLEAN |-> ProcessAll(wk)]
    /\ ColorIdle
    /\ FormatIdle
    /\ MeasureIdle
    /\ PopupIdle
    /\ page \in {"MapView", "MapFullscreenPage"}
    /\ isLoading = TRUE
    /\ windowL = FALSE
    /\ leafletScripts = <<>>
    /\ wellknownScripts = <<>>
    /\ runs = <<>>
    /\ mapInstance = 0
    /\ isMapInitialized = FALSE
    /\ rendered = <<>>
    /\ ZoomIdle

\* the parent renders the component with new props
PropsChange(loading, d) ==
    /\ <<loading, d>> # <<isLoading, data>>
    /\ loading => d = <<>>
    /\ isLoading' = loading
    /\ data' = d
    /\ UNCHANGED <<windowL, wellknown, processed>>
    /\ IF loading # isLoading /\ ~loading /\ Mounted(page, loading, d)
       THEN /\ Len(runs) < MaxRuns
            /\ \E w \in {initializeMap(World, windowL, wellknown, TRUE, page)} : Commit(w, TRUE)
       ELSE Commit(World, TRUE)
    /\ UNCHANGED loadFrame
    /\ UNCHANGED zoomVars

\* the Leaflet script k has loaded: window.L is set and onload is called
LeafletLoaded(k) ==
    /\ k \in 1..Len(leafletScripts)
    /\ leafletScripts[k] = "pending"
    /\ windowL' = TRUE
    /\ UNCHANGED <<isLoading, data, wellknown, processed>>
    /\ \E r \in {q \in 1..Len(runs) : runs[q].pc = "awaitLeaflet" /\ runs[q].script = k} :
          \E w \in {loadWellknown([World EXCEPT !.leafletScripts[k] = "loaded"], r, wellknown,
                                  Mounted(page, isLoading, data), page)} :
              Commit(w, w.isMapInitialized # isMapInitialized)
    /\ UNCHANGED loadFrame
    /\ UNCHANGED zoomVars

\* the Leaflet script k fails to load: no handler is registered for that
LeafletFailed(k) ==
    /\ k \in 1..Len(leafletScripts)
    /\ leafletScripts[k] = "pending"
    /\ leafletScripts' = [leafletScripts EXCEPT ![k] = "failed"]
    /\ UNCHANGED <<isLoading, data, wellknown, windowL, wellknownScripts, runs, mapInstance,
                   isMapInitialized, processed, layers, rendered>>
    /\ UNCHANGED loadFrame
    /\ UNCHANGED zoomVars

\* the run, if any, whose promise the wellknown script k resolves
Awaiting(k) == {r \in 1..Len(runs) : runs[r].pc = "awaitWellknown" /\ runs[r].script = k}

\* the wellknown script k has loaded: window.wellknown is set, onload is called
WellknownLoaded(k) ==
    /\ k \in 1..Len(wellknownScripts)
    /\ wellknownScripts[k] = "pending"
    /\ wellknown' = TRUE
    /\ UNCHANGED <<isLoading, data, windowL, processed>>
    /\ \E w0 \in {[World EXCEPT !.wellknownScripts[k] = "loaded"]} :
          \E w \in {IF Awaiting(k) = {} THEN w0
                     ELSE resolveWellknown(w0, CHOOSE r \in Awaiting(k) : TRUE, "onload",
                                           Mounted(page, isLoading, data))} :
              Commit(w, w.isMapInitialized # isMapInitialized)
    /\ UNCHANGED loadFrame
    /\ UNCHANGED zoomVars

\* the wellknown script k fails to load: MapView's onerror resolves the
\* promise, MapFullscreenPage registers no handler
WellknownFailed(k) ==
    /\ k \in 1..Len(wellknownScripts)
    /\ wellknownScripts[k] = "pending"
    /\ UNCHANGED <<isLoading, data, windowL, wellknown, processed>>
    /\ \E w0 \in {[World EXCEPT !.wellknownScripts[k] = "failed"]} :
          \E w \in {IF Awaiting(k) = {} \/ page # "MapView" THEN w0
                     ELSE resolveWellknown(w0, CHOOSE r \in Awaiting(k) : TRUE, "onerror",
                                           Mounted(page, isLoading, data))} :
              Commit(w, w.isMapInitialized # isMapInitialized)
    /\ UNCHANGED loadFrame
    /\ UNCHANGED zoomVars

\* the 5000 ms timer of the run r fires
WellknownTimeout(r) ==
    /\ r \in 1..Len(runs)
    /\ runs[r].timer
    /\ UNCHANGED <<isLoading, data, windowL, wellknown, processed>>
    /\ \E w \in {IF runs[r].pc = "awaitWellknown"
                   THEN resolveWellknown(World, r, "timeout", Mounted(page, isLoading, data))
                   ELSE [World EXCEPT !.runs[r].timer = FALSE]} :
          Commit(w, w.isMapInitialized # isMapInitialized)
    /\ UNCHANGED loadFrame
    /\ UNCHANGED zoomVars

NextLoad ==
    \/ \E loading \in BOOLEAN, d \in LoadDataSets : PropsChange(loading, d)
    \/ \E k \in 1..MaxRuns : LeafletLoaded(k)
    \/ \E k \in 1..MaxRuns : LeafletFailed(k)
    \/ \E k \in 1..MaxRuns : WellknownLoaded(k)
    \/ \E k \in 1..MaxRuns : WellknownFailed(k)
    \/ \E r \in 1..MaxRuns : WellknownTimeout(r)

SpecLoad == InitLoad /\ [][NextLoad]_vars

\* the browser loads a script that does not fail, and fires the timers
FairSpecLoad ==
    /\ SpecLoad
    /\ WF_vars(\E k \in 1..MaxRuns : LeafletLoaded(k))
    /\ WF_vars(\E r \in 1..MaxRuns : WellknownTimeout(r))

\* C16: the Leaflet runtime and the wellknown library are each requested at
\* most once: however initializeMap is started again while an earlier load
\* is pending, no second script element is injected for the same library.
C16_EachLibraryRequestedOnce ==
    Len(leafletScripts) <= 1 /\ Len(wellknownScripts) <= 1

\* C17: no geometry is parsed and no layer is added before the Leaflet load
\* has completed and the wellknown load has completed, failed or timed out:
\* the rebuild body has run only if isMapInitialized is true, and that is
\* set by a run of initializeMap that is past both of its awaits.
C17_RebuildAfterBothLoads ==
    (rendered # <<>> \/ layers # <<>>) =>
        /\ rendered # <<>>
        /\ isMapInitialized
        /\ windowL
        /\ mapInstance # 0
        /\ runs[mapInstance].pc = "done"
        /\ runs[mapInstance].outcome \in {"present", "onload", "onerror", "timeout"}
        /\ runs[mapInstance].outcome \in {"present", "onload"} => wellknown

\* the rebuild has drawn features after a run went on without wellknown
C17_Witness ==
    /\ rendered # <<>>
    /\ layers # <<>>
    /\ mapInstance # 0
    /\ runs[mapInstance].outcome = "timeout"
    /\ ~wellknown

HasPolygon(d) == \E i \in 1..Len(d) : d[i].geom = PolygonText

\* C18: once the Leaflet runtime is loaded, whatever happens to the
\* wellknown load (the script loads, errors or never answers), a run of
\* initializeMap that waits for wellknown eventually goes on to the map
\* creation, and the polygons of the record set are drawn with the manual
\* parser alone when wellknown is missing.
C18_WellknownNeverBlocksInit ==
    /\ \A r \in 1..MaxRuns :
          [](r \in DOMAIN runs /\ runs[r].pc = "awaitWellknown"
               => <>(r \in DOMAIN runs /\ runs[r].pc = "done"))
    /\ []((rendered = <<data>> /\ ~wellknown /\ HasPolygon(data))
             => \E i \in 1..Len(layers) : layers[i].kind = "geojson")

\* C19: if the Leaflet script fails to load, the run of initializeMap that
\* waits for it does not stay pending for ever: it ends, in an error
\* outcome.
C19_LeafletFailureEndsInit ==
    \A r \in 1..MaxRuns :
        []((/\ r \in DOMAIN runs
            /\ runs[r].pc = "awaitLeaflet"
            /\ leafletScripts[runs[r].script] = "failed")
           => <>(r \in DOMAIN runs /\ runs[r].pc # "awaitLeaflet"))

\* C20: a record set delivered before the map is initialised is not lost:
\* in MapView, when no Leaflet script fails and the props come to stay at
\* isLoading false with a record set that is not empty, eventually the map
\* is initialised and the rebuild has run on the most recent record set,
\* from then on.
C20_LatestRecordSetRendered ==
    (/\ page = "MapView"
     /\ [](\A k \in 1..Len(leafletScripts) : leafletScripts[k] # "failed")
     /\ <>[](~isLoading /\ data # <<>>))
    => <>[](isMapInitialized /\ rendered = <<data>>)

(***************************************************************************)
(* Records whose geometry value gives no geometry.                         *)
(***************************************************************************)
\* the rows of the attribute table (lines 1459-1477): one per record
tableRows(d) ==
    [i \in 1..Len(d) |->
        IF "Id" \in DOMAIN d[i] THEN d[i].Id ELSE IF "id" \in DOMAIN d[i] THEN d[i].id ELSE i - 1]

Defective(g) == g \in {NotAString, MalformedText, TooFewText}

LayersOf(record) == {i \in 1..Len(layers) : layers[i].record = record}

\* C21: in the map view, after a rebuild, a record whose geometry value is
\* not a string, is malformed WKT or has too few coordinate pairs has no
\* layer in the layer group; every other record of the same record set,
\* before or after it, has its feature; and every record has its row in the
\* attribute table.
C21_DefectiveRecordDropped ==
    (page = "MapView" /\ rendered = <<data>>) =>
        \A i \in 1..Len(data) :
            /\ Defective(data[i].geom) => LayersOf(data[i]) = {}
            /\ ~Defective(data[i].geom) => LayersOf(data[i]) # {}
            /\ \E k \in 1..Len(tableRows(data)) : tableRows(data)[k] = data[i].Id

\* C22: the updates mapping a popup save passes to onRecordUpdate has only
\* keys of columns whose permission is 'edit'.
C22_UpdatesOnlyEditColumns ==
    \A c \in 1..Len(saving) :
        \A key \in DOMAIN saving[c].updates :
            \E k \in 1..Len(columns) : columns[k].key = key /\ columns[k].permission = "edit"

(***************************************************************************)
(* The manual parser on POLYGON((...)) strings whose tokens have one, two  *)
(* or three fields, or a field with characters after the number.           *)
(***************************************************************************)
LooseTokenSet ==
    {<<"0", " ", "0">>, <<"1", " ", "0">>, <<"1", " ", "1">>,
     <<"1">>, <<"1", " ", "1", " ", "2">>, <<"1x", " ", "1">>}

LooseTokenLists == UNION {[1..n -> LooseTokenSet] : n \in 0..MaxTokens}

InitPairs ==
    /\ UiIdle
    /\ ColorIdle
    /\ FormatIdle
    /\ MeasureIdle
    /\ wktParts \in [tag : {"POLYGON"}, gap : {<<>>}, opens : {2}, tokens : LooseTokenLists,
                     closing : {<<")", ")">>}]
    /\ geomData = Str(BuildWkt(wktParts))
    /\ wellknown = FALSE
    /\ geometry = NullGeometry
    /\ added = Nothing
    /\ ppc = "start"
    /\ PopupIdle
    /\ LoadIdle
    /\ ZoomIdle

SpecPairs == InitPairs /\ [][ParseManually]_vars

\* C23: the ring the manual parser returns holds the coordinates of the
\* tokens that consist of exactly two fields that are both numbers, in
\* order (closed by its first pair when open); a token of one field, of
\* three fields or with characters after a number adds nothing; and the
\* parser returns null when fewer than 3 such tokens are written.
C23_RingFromTwoFieldTokens ==
    ppc = "parsed" =>
        LET pairs == WrittenPairs(wktParts.tokens)
        IN IF Len(pairs) < 3 THEN geometry = NullGeometry
           ELSE /\ geometry.type = "Polygon"
                /\ geometry.ring \in {pairs, Append(pairs, pairs[1])}

\* C24: a click on a legend item flips the membership of its value in
\* hiddenValues and applies the visibility styles to the layers that are in
\* the layer group: the group is not cleared and no layer is made, so the
\* layers after the click are the layers before it, restyled by
\* updateLayerVisibility and otherwise as they were.
C24_ToggleKeepsLayers ==
    [][\A v \in {Active, Inactive, NoValue} :
          ToggleLegendItem(v) =>
              /\ hiddenValues' \in {hiddenValues \cup {v}, hiddenValues \ {v}}
              /\ hiddenValues' # hiddenValues
              /\ layers' = updateLayerVisibility(layers, hiddenValues', colorField)]_vars

\* C27: after every rebuild the layer group holds the layers made from the
\* current record set, feature by feature and label by label in the order
\* of the records, and no layer of an earlier rebuild, whatever record sets
\* and field selections came before.
C27_OnlyCurrentLayers ==
    LET made == AddLayers(data, 0, colorField, labelField, processed)
    IN /\ Len(layers) = Len(made)
       /\ \A i \in 1..Len(layers) :
             layers[i].kind = made[i].kind /\ layers[i].record = made[i].record

\* a record set that replaced another (the one with a record without status,
\* whose legend item was switched off) is drawn with its label
C27_Witness ==
    /\ NoValue \in hiddenValues
    /\ \A i \in 1..Len(data) : data[i].status # <<>>
    /\ labelField = "status"
    /\ \E i \in 1..Len(layers) : layers[i].kind = "label" /\ layers[i].record = data[1]

\* the features on the map whose category value is v
FeaturesOf(v) ==
    {i \in 1..Len(layers) : IsFeature(layers[i]) /\ CategoryOf(layers[i].record, colorField) = v}

\* C25: with a colour field selected, the stored legend has exactly one item
\* per distinct category value among the features on the map, and the count
\* of each item is the number of features with that value: a record whose
\* geometry gave no feature is not counted.
C25_LegendCountsFeatures ==
    Selected(colorField) =>
        /\ \A k \in 1..Len(legendItems) :
              /\ legendItems[k].count = Cardinality(FeaturesOf(legendItems[k].value))
              /\ legendItems[k].count > 0
              /\ \A j \in 1..Len(legendItems) : legendItems[j].value = legendItems[k].value => j = k
        /\ \A i \in 1..Len(layers) :
              IsFeature(layers[i]) =>
                  \E k \in 1..Len(legendItems) :
                      legendItems[k].value = CategoryOf(layers[i].record, colorField)

\* the units of a unit system
UnitsOf(system) ==
    IF system = "imperial" THEN {"ft", "miles", "sq ft", "acres"}
    ELSE {"m", "km", "sq m", "hectares"}

\* C26: the popup a map click opens in a line or area session shows the
\* measurement in the unit system that is selected when the click is made,
\* also when measurementUnits was changed after the session was started.
C26_PopupInSelectedUnits ==
    [][\A latlng \in ClickPoints :
          (MapClick(latlng) /\ popup' # popup) => popup'.text.unit \in UnitsOf(measurementUnits)]_vars

\* what point-like parsing is to return for the string s: POINT(x y) gives
\* lat y and lng x, a pair a, b gives lat a and lng b when |a| <= 90 and
\* the reverse otherwise, anything else gives null
PointLike(s) ==
    IF /\ Len(s) = 6
       /\ <<s[1], s[2], s[4], s[6]>> = <<"POINT", "(", " ", ")">>
       /\ IsNumberLexeme(s[3]) /\ IsNumberLexeme(s[5])
    THEN [found |-> TRUE, lat |-> ParseFloatLexeme(s[5]), lng |-> ParseFloatLexeme(s[3])]
    ELSE IF /\ Len(s) \in {3, 4}
            /\ s[2] = ","
            /\ Len(s) = 4 => s[3] = " "
            /\ IsNumberLexeme(s[1]) /\ IsNumberLexeme(s[Len(s)])
    THEN IF Abs(ParseFloatLexeme(s[1]).v) <= 90
         THEN [found |-> TRUE, lat |-> ParseFloatLexeme(s[1]), lng |-> ParseFloatLexeme(s[Len(s)])]
         ELSE [found |-> TRUE, lat |-> ParseFloatLexeme(s[Len(s)]), lng |-> ParseFloatLexeme(s[1])]
    ELSE NullCoords

\* C28: for a string that is not tagged as a polygon, parseCoordinates
\* returns what point-like parsing is to return, never a pair that holds a
\* value that is not a number, and a marker is added only for a pair of
\* numbers.
C28_ParseCoordinatesPointLike ==
    (ppc = "built" /\ geomData.isString /\ ~StartsWithPolygonTag(geomData.s)) =>
        LET coords == parseCoordinates(geomData.s)
        IN /\ coords = PointLike(geomData.s)
           /\ coords.found => ~coords.lat.nan /\ ~coords.lng.nan
           /\ added.kind = "circleMarker" => coords.found /\ ~coords.lat.nan /\ ~coords.lng.nan

(***************************************************************************)
(* The attribute table: a click on a row calls zoomToRecord.  The record   *)
(* sets are those of the map view and one whose records are identified by  *)
(* a lower-case id.                                                        *)
(***************************************************************************)
InitZoom ==
    /\ ParseIdle
    /\ ColorIdle
    /\ FormatIdle
    /\ MeasureIdle
    /\ data \in ViewDataSets
    /\ processed = ProcessAll(wellknown)
    /\ layers = AddLayers(data, 0, "", "", processed)
    /\ hiddenValues = {}
    /\ legendItems = <<>>
    /\ colorField = ""
    /\ labelField = ""
    /\ filterField = ""
    /\ filterValue = <<>>
    /\ PopupIdle
    /\ LoadIdle
    /\ ZoomIdle

\* a click on row i of the attribute table
ZoomToRecord(i) ==
    /\ i \in 1..Len(data)
    /\ LET found == zoomToRecord(layers, data[i])
       IN /\ fitted' = [k \in 1..Len(found) |-> found[k].record]
          /\ IF found # <<>>
             THEN /\ selectedFeature' = <<data[i]>>
                  /\ layers' = IF selectedFeature' # selectedFeature
                               THEN Rebuild(data, 0, colorField, labelField, processed)
                               ELSE layers
             ELSE UNCHANGED <<selectedFeature, layers>>
    /\ UNCHANGED <<data, processed, hiddenValues, legendItems, colorField, labelField, filterField,
                   filterValue, notUi>>
    /\ UNCHANGED <<columns, content, domPopup, editingFeature, saving, updateCalls, alerts>>
    /\ UNCHANGED loadVars

NextZoom ==
    \/ \E i \in 1..Len(data) : ZoomToRecord(i)
    \/ \E key \in {"default", "status"} : SetColorField(key)
    \/ \E key \in {"none", "status"} : SetLabelField(key)
    \/ \E d \in ViewDataSets : DataChange(d)

SpecZoom == InitZoom /\ [][NextZoom]_vars

\* C29: a click on the row of a record sets the view to layers of that
\* record only, for records identified by Id and by id alike, and finds the
\* record when it has a polygon on the map.
C29_ZoomToClickedRecord ==
    [][\A i \in 1..Len(data) :
          ZoomToRecord(i) =>
              /\ \A k \in 1..Len(fitted') : fitted'[k] = data[i]
              /\ (\E j \in 1..Len(layers) : layers[j].kind = "geojson" /\ layers[j].record = data[i])
                     => fitted' # <<>>]_vars

\* the record of the feature contains the filter value in the filter field,
\* case-insensitively
Matches(layer) ==
    /\ layer.record[filterField] # <<>>
    /\ includes(toLowerCase(layer.record[filterField]), toLowerCase(filterValue))

\* C30: with a filter field chosen and a filter value typed, Apply leaves
\* every feature of the layer group, polygon or point marker, with or
\* without label markers in the group, emphasised (opacity 1, fill opacity
\* 0.6) when its record matches and dimmed (0.3, 0.1) when it does not; and
\* Clear leaves every feature in the style it is drawn with.
C30_FilterStylesEveryFeature ==
    [][/\ ApplyFilter =>
             \A i \in 1..Len(layers') :
                 IsFeature(layers'[i]) =>
                     IF Matches(layers'[i])
                     THEN layers'[i].opacity = 10 /\ layers'[i].fillOpacity = 6
                     ELSE layers'[i].opacity = 3 /\ layers'[i].fillOpacity = 1
       /\ ClearFilter =>
             LET made == AddLayers(data, 0, colorField, labelField, processed)
             IN \A i \in 1..Len(layers') :
                    IsFeature(layers'[i]) =>
                        /\ layers'[i].opacity = made[i].opacity
                        /\ layers'[i].fillOpacity = made[i].fillOpacity]_vars
====
